---- MODULE Spec2Model ----
(***************************************************************************)
(* The 1099-B extraction pipelines of server/: brokerageParser.py (the     *)
(* per-brokerage parsers and their orchestrator main), parse_pdf_fixed.py  *)
(* and parse_pdf.py (the two Robinhood line scanners).                     *)
(*                                                                         *)
(* A Python string is a sequence of one-character strings, so that lower,  *)
(* strip, split, zfill, float and the regular expressions are computed on  *)
(* the characters as the source computes them.  A text is the sequence of  *)
(* its lines (text.split('\n')).  The regular expressions are matched on   *)
(* the whitespace-separated words of a line; the input lines separate      *)
(* words by one blank.  Amounts of money and quantities are fixed-point    *)
(* numbers counted in hundredths (1,234.56 is 123456).                     *)
(***************************************************************************)
EXTENDS Integers, Sequences, FiniteSets, TLC

\* The number of body lines of a document, after its header line.
MaxLines == 2

\* Hundredths per unit of the fixed-point numbers.
Scale == 10 * 10

Units(n) == n * Scale

----------------------------------------------------------------------------
\* Characters and the Python string methods the parsers use.

DigitSeq == <<"0", "1", "2", "3", "4", "5", "6", "7", "8", "9">>

UpperSeq == <<"A", "B", "C", "D", "E", "F", "G", "H", "I", "J", "K", "L", "M",
              "N", "O", "P", "Q", "R", "S", "T", "U", "V", "W", "X", "Y", "Z">>

LowerSeq == <<"a", "b", "c", "d", "e", "f", "g", "h", "i", "j", "k", "l", "m",
              "n", "o", "p", "q", "r", "s", "t", "u", "v", "w", "x", "y", "z">>

Range(f) == {f[i] : i \in DOMAIN f}

Digit == Range(DigitSeq)

Upper == Range(UpperSeq)

Lower == Range(LowerSeq)

Letter == Upper \cup Lower

\* \s, as far as a line can hold it
Whitespace == {" "}

\* \w
WordChar == Letter \cup Digit \cup {"_"}

DigitVal(c) == (CHOOSE i \in DOMAIN DigitSeq : DigitSeq[i] = c) - 1

Abs(x) == IF x < 0 THEN -x ELSE x

Last(s) == s[Len(s)]

Front(s) == SubSeq(s, 1, Len(s) - 1)

From(s, p) == SubSeq(s, p, Len(s))

All(s, C) == \A i \in DOMAIN s : s[i] \in C

\* str.lower()
lower(s) ==
    [i \in DOMAIN s |->
        IF s[i] \in Upper
        THEN LowerSeq[CHOOSE k \in DOMAIN UpperSeq : UpperSeq[k] = s[i]]
        ELSE s[i]]

\* str.upper()
upper(s) ==
    [i \in DOMAIN s |->
        IF s[i] \in Lower
        THEN UpperSeq[CHOOSE k \in DOMAIN LowerSeq : LowerSeq[k] = s[i]]
        ELSE s[i]]

\* The end of the longest run of characters of C that starts at p (p - 1 when
\* s[p] is not in C): what a greedy [C]* consumes.
RECURSIVE RunEnd(_, _, _)
RunEnd(s, p, C) ==
    IF p > Len(s) \/ s[p] \notin C THEN p - 1 ELSE RunEnd(s, p + 1, C)

\* The start of the longest run of characters of C that ends at the end of s
\* (Len(s) + 1 when the last character is not in C).
RECURSIVE RunStart(_, _, _)
RunStart(s, p, C) ==
    IF p < 1 \/ s[p] \notin C THEN p + 1 ELSE RunStart(s, p - 1, C)

\* str.strip()
strip(s) ==
    LET a == RunEnd(s, 1, Whitespace) + 1
        b == RunStart(s, Len(s), Whitespace) - 1
    IN  IF a > b THEN <<>> ELSE SubSeq(s, a, b)

\* needle in hay
Contains(hay, needle) ==
    \E p \in 1..(Len(hay) - Len(needle) + 1) :
        /\ hay[p] = needle[1]
        /\ SubSeq(hay, p, p + Len(needle) - 1) = needle

startswith(s, prefix) ==
    Len(s) >= Len(prefix) /\ SubSeq(s, 1, Len(prefix)) = prefix

endswith(s, suffix) ==
    Len(s) >= Len(suffix) /\ From(s, Len(s) - Len(suffix) + 1) = suffix

\* str.split(sep) for a one-character sep
RECURSIVE split(_, _)
split(s, sep) ==
    LET e == RunEnd(s, 1, Range(s) \ {sep})
    IN  IF e = Len(s) THEN <<s>>
        ELSE <<SubSeq(s, 1, e)>> \o split(From(s, e + 2), sep)

\* The words of a line: its maximal runs of non-whitespace characters.
words(s) == SelectSeq(split(s, " "), LAMBDA w : w # <<>>)

\* ' '.join(ws)
RECURSIVE join(_)
join(ws) ==
    IF ws = <<>> THEN <<>>
    ELSE IF Len(ws) = 1 THEN ws[1]
    ELSE ws[1] \o <<" ">> \o join(Tail(ws))

\* str.zfill(2): the zeros go after a leading sign
zfill2(s) ==
    IF Len(s) >= 2 THEN s
    ELSE IF Len(s) = 1
    THEN (IF s[1] \in {"+", "-"} THEN s \o <<"0">> ELSE <<"0">> \o s)
    ELSE <<"0", "0">>

\* The number a string of digits denotes.
RECURSIVE DigitsVal(_)
DigitsVal(s) ==
    IF s = <<>> THEN 0 ELSE DigitsVal(Front(s)) * 10 + DigitVal(Last(s))

\* str(n) for an integer n >= 0
RECURSIVE NatStr(_)
NatStr(n) ==
    IF n < 10 THEN <<DigitSeq[n + 1]>>
    ELSE NatStr(n \div 10) \o <<DigitSeq[(n % 10) + 1]>>

\* str(x) of a float x given in hundredths: 100000 is "1000.0", 12345 is
\* "123.45", -300 is "-3.0".
FloatStr(x) ==
    LET a == Abs(x)
        f == a % Scale
        frac == IF f % 10 = 0 THEN NatStr(f \div 10)
                ELSE <<DigitSeq[(f \div 10) + 1], DigitSeq[(f % 10) + 1]>>
    IN  (IF x < 0 THEN <<"-">> ELSE <<>>) \o NatStr(a \div Scale) \o <<".">> \o frac

\* float(s) for a string of digits, '.', '-' and '+': ok is FALSE where Python
\* raises ValueError, v is the value in hundredths (digits after the second
\* decimal are dropped: the amounts of the input lines have at most two).
float(s) ==
    LET signed == s # <<>> /\ s[1] \in {"-", "+"}
        body == IF signed THEN Tail(s) ELSE s
        e == RunEnd(body, 1, Digit)
        hasDot == e < Len(body) /\ body[e + 1] = "."
        ip == SubSeq(body, 1, e)
        fp == IF hasDot THEN From(body, e + 2) ELSE <<>>
        ok == /\ All(fp, Digit)
              /\ (hasDot \/ e = Len(body))
              /\ Len(ip) + Len(fp) >= 1
        f2 == SubSeq(fp \o <<"0", "0">>, 1, 2)
        mag == DigitsVal(ip) * Scale + DigitsVal(f2)
    IN  [ok |-> ok,
         v |-> IF ~ok THEN 0 ELSE IF signed /\ s[1] = "-" THEN -mag ELSE mag]

----------------------------------------------------------------------------
\* The pieces of the regular expressions, on one word or at one position.

\* The word is [\d,]+\.\d{2}
MoneyRe(w) ==
    LET e == RunEnd(w, 1, Digit \cup {","})
    IN  /\ e >= 1
        /\ Len(w) = e + 3
        /\ w[e + 1] = "."
        /\ w[e + 2] \in Digit /\ w[e + 3] \in Digit

\* Where re.search starts [\d,]+\.\d{2}\s in the word: the leftmost position
\* from which the rest of the word is such an amount, 0 when there is none.
MoneyStart(w) ==
    LET P == {p \in DOMAIN w : MoneyRe(From(w, p))}
    IN  IF P = {} THEN 0 ELSE CHOOSE p \in P : \A q \in P : p <= q

\* The length of the prefix of the word that [\d,\-]+\.\d{2} matches, 0 when
\* it does not match there.
MoneyNegPrefix(w) ==
    LET e == RunEnd(w, 1, Digit \cup {",", "-"})
    IN  IF /\ e >= 1
           /\ Len(w) >= e + 3
           /\ w[e + 1] = "."
           /\ w[e + 2] \in Digit /\ w[e + 3] \in Digit
        THEN e + 3 ELSE 0

\* The length of the match of \d{1,2}/\d{1,2}/\d{lo,4} at position p of s when
\* the year is followed by whitespace, a word boundary or the end; 0 when it
\* does not match there.
DateAt(s, p, lo) ==
    LET m == RunEnd(s, p, Digit)
        d == RunEnd(s, m + 2, Digit)
        y == RunEnd(s, d + 2, Digit)
    IN  IF /\ m - p + 1 \in 1..2
           /\ m + 1 <= Len(s) /\ s[m + 1] = "/"
           /\ d - (m + 2) + 1 \in 1..2
           /\ d + 1 <= Len(s) /\ s[d + 1] = "/"
           /\ y - (d + 2) + 1 \in lo..4
           /\ (y = Len(s) \/ s[y + 1] \notin WordChar)
        THEN y - p + 1 ELSE 0

\* The word is \d{1,2}/\d{1,2}/\d{4}
Date4Re(w) == w # <<>> /\ DateAt(w, 1, 4) = Len(w)

\* The word is \d{1,2}/\d{1,2}/\d{2,4}
DateRe(w) == w # <<>> /\ DateAt(w, 1, 2) = Len(w)

\* The length of the prefix of s from p that \$?[\d,]+\.?\d* matches (greedy),
\* and where its group starts; len 0 when it does not match at p.
NumberAt(s, p) ==
    LET g == IF p <= Len(s) /\ s[p] = "$" /\ RunEnd(s, p + 1, Digit \cup {","}) >= p + 1
             THEN p + 1 ELSE p
        e == RunEnd(s, g, Digit \cup {","})
        f == IF e + 1 <= Len(s) /\ s[e + 1] = "." THEN RunEnd(s, e + 2, Digit) ELSE e
    IN  IF e >= g THEN [len |-> f - p + 1, group |-> SubSeq(s, g, f)]
        ELSE [len |-> 0, group |-> <<>>]

\* The word is \$?[\d,]+\.?\d*
NumberRe(w) == w # <<>> /\ NumberAt(w, 1).len = Len(w)

\* The word is \d+(?:\.\d+)?
DecimalRe(w) ==
    LET e == RunEnd(w, 1, Digit)
    IN  /\ e >= 1
        /\ \/ e = Len(w)
           \/ /\ e + 2 <= Len(w)
              /\ w[e + 1] = "."
              /\ All(From(w, e + 2), Digit)

\* The leftmost position from which the rest of the word satisfies R, 0 when
\* there is none: where re.search starts a piece that must end with the word.
SuffixStart(w, R(_)) ==
    LET P == {p \in DOMAIN w : R(From(w, p))}
    IN  IF P = {} THEN 0 ELSE CHOOSE p \in P : \A q \in P : p <= q

Min(S) == CHOOSE x \in S : \A y \in S : x <= y

Max(S) == CHOOSE x \in S : \A y \in S : x >= y

NoMatch == [ok |-> FALSE, groups |-> <<>>]

Match(gs) == [ok |-> TRUE, groups |-> gs]

----------------------------------------------------------------------------
\* brokerageParser.py

\* return -abs(value) if is_negative else value, and 0 where float() raised
Signed(value, is_negative) ==
    IF ~value.ok THEN 0
    ELSE IF is_negative THEN -Abs(value.v) ELSE value.v

\* re.sub(r'[^\d.,\-]', '', text) without a final '.'
Cleaned(text) ==
    LET kept == SelectSeq(text, LAMBDA c : c \in Digit \cup {".", ",", "-"})
    IN  IF kept # <<>> /\ Last(kept) = "." THEN Front(kept) ELSE kept

\* parse_currency: the value of a currency string, 0 where float() raises.
parse_currency(text) ==
    IF text = <<>> \/ strip(text) = <<>> THEN 0
    ELSE Signed(float(SelectSeq(Cleaned(text), LAMBDA c : c # ",")),
                "(" \in Range(text) /\ ")" \in Range(text))

\* needle in text_lower: no needle holds a newline, so it lies in one line.
InTextLower(text, needle) ==
    \E i \in DOMAIN text : Contains(lower(text[i]), needle)

\* detect_brokerage with the fidelity rule before the schwab rule.
detect_brokerageFidelityFirst(text) ==
    IF InTextLower(text, <<"r", "o", "b", "i", "n", "h", "o", "o", "d">>) THEN "robinhood"
    ELSE IF InTextLower(text, <<"i", "n", "t", "e", "r", "a", "c", "t", "i", "v", "e", " ", "b", "r", "o", "k", "e", "r", "s">>) \/ InTextLower(text, <<"i", "b", "k", "r">>)
    THEN "interactive_brokers"
    ELSE IF InTextLower(text, <<"f", "i", "d", "e", "l", "i", "t", "y">>) THEN "fidelity"
    ELSE IF InTextLower(text, <<"t", "d", " ", "a", "m", "e", "r", "i", "t", "r", "a", "d", "e">>) \/ InTextLower(text, <<"s", "c", "h", "w", "a", "b">>)
    THEN "schwab_td"
    ELSE IF InTextLower(text, <<"e", "*", "t", "r", "a", "d", "e">>) \/ InTextLower(text, <<"e", "t", "r", "a", "d", "e">>)
    THEN "etrade"
    ELSE "unknown"

detect_brokerage(text) ==
    IF InTextLower(text, <<"r", "o", "b", "i", "n", "h", "o", "o", "d">>) THEN "robinhood"
    ELSE IF InTextLower(text, <<"i", "n", "t", "e", "r", "a", "c", "t", "i", "v", "e", " ", "b", "r", "o", "k", "e", "r", "s">>) \/ InTextLower(text, <<"i", "b", "k", "r">>)
    THEN "interactive_brokers"
    ELSE IF InTextLower(text, <<"t", "d", " ", "a", "m", "e", "r", "i", "t", "r", "a", "d", "e">>) \/ InTextLower(text, <<"s", "c", "h", "w", "a", "b">>)
    THEN "schwab_td"
    ELSE IF InTextLower(text, <<"f", "i", "d", "e", "l", "i", "t", "y">>) THEN "fidelity"
    ELSE IF InTextLower(text, <<"e", "*", "t", "r", "a", "d", "e">>) \/ InTextLower(text, <<"e", "t", "r", "a", "d", "e">>)
    THEN "etrade"
    ELSE "unknown"

\* The words of the whole text in order, each with the number of its line: \s+
\* in a pattern searched over the text also matches the newlines.
RECURSIVE TextWords(_, _)
TextWords(text, i) ==
    IF i > Len(text) THEN <<>>
    ELSE LET ws == words(text[i])
         IN  [k \in DOMAIN ws |-> [w |-> ws[k], ln |-> i]] \o TextWords(text, i + 1)

\* The labels of summary_patterns, each as its words in lower case
\* (re.IGNORECASE); the blank inside a label is one literal blank.
summary_labels ==
    << <<<<"g", "r", "a", "n", "d">>, <<"t", "o", "t", "a", "l">>>>,
       <<<<"g", "r", "a", "n", "d", "t", "o", "t", "a", "l">>>>,
       <<<<"t", "o", "t", "a", "l">>, <<"s", "h", "o", "r", "t", "-", "t", "e", "r", "m">>>> >>

\* Whether the label's words stand at position i of the text's words: the
\* first may be the end of a longer word, the others are whole words of the
\* same line.
LabelAt(tw, i, label) ==
    /\ i + Len(label) - 1 <= Len(tw)
    /\ endswith(lower(tw[i].w), label[1])
    /\ \A k \in 2..Len(label) :
          /\ lower(tw[i + k - 1].w) = label[k]
          /\ tw[i + k - 1].ln = tw[i].ln

\* The groups of the label and five amounts, the fifth one [\d,\-]+\.\d{2},
\* at their first place in the words tw of the text.
SummaryAt(tw, label) ==
    LET f(i, k) == tw[i + Len(label) + k - 1].w
        At(i) == /\ LabelAt(tw, i, label)
                 /\ i + Len(label) + 4 <= Len(tw)
                 /\ \A k \in 1..4 : MoneyRe(f(i, k))
                 /\ MoneyNegPrefix(f(i, 5)) > 0
        I == {i \in DOMAIN tw : At(i)}
    IN  IF I = {} THEN NoMatch
        ELSE LET i == Min(I)
             IN  Match(<<f(i, 1), f(i, 2), f(i, 3), f(i, 4),
                         SubSeq(f(i, 5), 1, MoneyNegPrefix(f(i, 5)))>>)

\* re.search(summary_patterns[n], text, re.DOTALL | re.IGNORECASE)
SummarySearch(text, n) == SummaryAt(TextWords(text, 1), summary_labels[n])

None == <<>>

Some(x) == <<x>>

\* The dictionary parse_robinhood_pdf returns for the four amounts it read.
SummaryResult(proceeds, cost_basis, wash_sale, net_gain) ==
    [totalProceeds |-> proceeds,
     totalCostBasis |-> cost_basis,
     totalNetGainLoss |-> net_gain,
     totalWashSaleLoss |-> wash_sale,
     shortTermProceeds |-> proceeds,
     shortTermCostBasis |-> cost_basis,
     shortTermNetGainLoss |-> net_gain,
     longTermProceeds |-> 0,
     longTermCostBasis |-> 0,
     longTermNetGainLoss |-> 0,
     transactions |-> <<
        [cusip |-> <<>>,
         description |-> <<"S", "h", "o", "r", "t", "-", "t", "e", "r", "m", " ", "C", "a", "p", "i", "t", "a", "l", " ", "G", "a", "i", "n", "s", " ", "S", "u", "m", "m", "a", "r", "y">>,
         dateAcquired |-> <<"V", "a", "r", "i", "o", "u", "s">>,
         dateSold |-> <<"V", "a", "r", "i", "o", "u", "s">>,
         proceeds |-> proceeds,
         costBasis |-> cost_basis,
         washSaleLoss |-> wash_sale,
         netGainLoss |-> net_gain,
         quantity |-> Units(1),
         isLongTerm |-> FALSE,
         formType |-> <<"A">>] >>]

\* RobinhoodSummary with the net gain recomputed as proceeds - cost basis
\* instead of read from group 5.
RobinhoodSummaryRecomputed(groups) ==
    SummaryResult(parse_currency(groups[1]), parse_currency(groups[2]),
                  parse_currency(groups[4]),
                  parse_currency(groups[1]) - parse_currency(groups[2]))

\* The amounts of a matched summary row: groups 1, 2, 4 and 5; group 3, the
\* market discount, is not read.
RobinhoodSummary(groups) ==
    SummaryResult(parse_currency(groups[1]), parse_currency(groups[2]),
                  parse_currency(groups[4]), parse_currency(groups[5]))

\* The result for the match m of one pattern, otherwise that of the patterns
\* after it.
FirstMatch(m, otherwise) ==
    IF m.ok THEN Some(RobinhoodSummary(m.groups)) ELSE otherwise

\* parse_robinhood_pdf of brokerageParser.py: the first summary pattern, in
\* the order of summary_patterns, that matches anywhere in the text.
RECURSIVE RobinhoodFrom(_, _)
RobinhoodFrom(text, n) ==
    IF n > Len(summary_labels) THEN None
    ELSE FirstMatch(SummarySearch(text, n), RobinhoodFrom(text, n + 1))

parse_robinhood_pdf(text) == RobinhoodFrom(text, 1)

\* [A-Z\s&\.]
NameChar == Upper \cup {"&", "."}

\* Group 1 of the company patterns, ([A-Z\s&\.]+)\s+ before the word ws[j]:
\* the words before ws[j] that consist of name characters, and before them the
\* end of the word that precedes them.  ok is FALSE when no name character
\* stands before the blank in front of ws[j].
NameBefore(ws, j) ==
    LET K == {k \in 1..j : \A i \in k..(j - 1) : All(ws[i], NameChar)}
        k == Min(K)
        sfx == IF k = 1 THEN <<>>
               ELSE From(ws[k - 1], RunStart(ws[k - 1], Len(ws[k - 1]), NameChar))
        whole == SubSeq(ws, k, j - 1)
    IN  [ok |-> j >= 2 /\ (k < j \/ sfx # <<>>),
         name |-> join((IF sfx = <<>> THEN <<>> ELSE <<sfx>>) \o whole)]

\* Four amounts from the word ws[j] on, the fourth [\d,\-]+\.\d{2}; first is
\* TRUE when the pattern starts with them, so that the first amount may be
\* the end of a longer word.
FourAmounts(ws, j, first) ==
    /\ j >= 1 /\ j + 3 <= Len(ws)
    /\ IF first THEN MoneyStart(ws[j]) > 0 ELSE MoneyRe(ws[j])
    /\ MoneyRe(ws[j + 1])
    /\ MoneyRe(ws[j + 2])
    /\ MoneyNegPrefix(ws[j + 3]) > 0

AmountGroups(ws, j) ==
    <<From(ws[j], MoneyStart(ws[j])), ws[j + 1], ws[j + 2],
      SubSeq(ws[j + 3], 1, MoneyNegPrefix(ws[j + 3]))>>

\* IBKRPattern0 matching no line.
IBKRPattern0Never(ws) == NoMatch

\* patterns[0] on the words of a line: four amounts in a row
IBKRPattern0(ws) ==
    LET J == {j \in DOMAIN ws : FourAmounts(ws, j, TRUE)}
    IN  IF J = {} THEN NoMatch ELSE Match(AmountGroups(ws, Min(J)))

\* patterns[1]: a company name, then four amounts
IBKRPattern1(ws) ==
    LET J == {j \in DOMAIN ws : FourAmounts(ws, j, FALSE) /\ NameBefore(ws, j).ok}
    IN  IF J = {} THEN NoMatch
        ELSE Match(<<NameBefore(ws, Min(J)).name>> \o AmountGroups(ws, Min(J)))

\* patterns[2]: the full row: name, CUSIP, symbol, quantity, A or B, SALE or
\* PURCHASE, two dates (the second may be any word), four amounts
IBKRPattern2(ws) ==
    LET At(j) == /\ j + 10 <= Len(ws)
                 /\ NameBefore(ws, j).ok
                 /\ ws[j] # <<>> /\ All(ws[j], Digit)
                 /\ ws[j + 1] # <<>> /\ All(ws[j + 1], Upper)
                 /\ ws[j + 2] # <<>> /\ All(ws[j + 2], Digit)
                 /\ ws[j + 3] \in {<<"A">>, <<"B">>}
                 /\ ws[j + 4] \in {<<"S", "A", "L", "E">>, <<"P", "U", "R", "C", "H", "A", "S", "E">>}
                 /\ Date4Re(ws[j + 5])
                 /\ (Date4Re(ws[j + 6]) \/ All(ws[j + 6], WordChar))
                 /\ FourAmounts(ws, j + 7, FALSE)
        J == {j \in DOMAIN ws : At(j)}
    IN  IF J = {} THEN NoMatch
        ELSE LET j == Min(J)
             IN  Match(<<NameBefore(ws, j).name>> \o SubSeq(ws, j, j + 6)
                       \o AmountGroups(ws, j + 7))

\* re.search(patterns[pattern_idx], line)
IBKRSearch(pattern_idx, line) ==
    IF pattern_idx = 0 THEN IBKRPattern0(words(line))
    ELSE IF pattern_idx = 1 THEN IBKRPattern1(words(line))
    ELSE IBKRPattern2(words(line))

\* The fields the branch of pattern_idx reads from the groups of a match; n is
\* len(transactions) at that moment.
IBKRFields(pattern_idx, groups, n) ==
    IF pattern_idx = 0 THEN
        [company_name |-> <<"T", "r", "a", "n", "s", "a", "c", "t", "i", "o", "n", " ">> \o NatStr(n + 1),
         cusip |-> <<"U", "n", "k", "n", "o", "w", "n">>, symbol |-> <<"U", "n", "k", "n", "o", "w", "n">>,
         quantity |-> Units(1), form_type |-> <<"A">>, action |-> <<"S", "A", "L", "E">>,
         date_sold |-> <<"V", "a", "r", "i", "o", "u", "s">>, date_acquired |-> <<"V", "a", "r", "i", "o", "u", "s">>,
         proceeds |-> parse_currency(groups[1]),
         cost_basis |-> parse_currency(groups[2]),
         market_discount |-> parse_currency(groups[3]),
         wash_sale |-> parse_currency(groups[4])]
    ELSE IF pattern_idx = 1 THEN
        [company_name |-> strip(groups[1]),
         cusip |-> <<"U", "n", "k", "n", "o", "w", "n">>,
         symbol |-> IF strip(groups[1]) # <<>> THEN words(strip(groups[1]))[1]
                    ELSE <<"U", "n", "k", "n", "o", "w", "n">>,
         quantity |-> Units(1), form_type |-> <<"A">>, action |-> <<"S", "A", "L", "E">>,
         date_sold |-> <<"V", "a", "r", "i", "o", "u", "s">>, date_acquired |-> <<"V", "a", "r", "i", "o", "u", "s">>,
         proceeds |-> parse_currency(groups[2]),
         cost_basis |-> parse_currency(groups[3]),
         market_discount |-> parse_currency(groups[4]),
         wash_sale |-> parse_currency(groups[5])]
    ELSE
        [company_name |-> strip(groups[1]),
         cusip |-> groups[2], symbol |-> groups[3],
         quantity |-> Units(DigitsVal(groups[4])),
         form_type |-> groups[5], action |-> groups[6],
         date_sold |-> groups[7], date_acquired |-> groups[8],
         proceeds |-> parse_currency(groups[9]),
         cost_basis |-> parse_currency(groups[10]),
         market_discount |-> parse_currency(groups[11]),
         wash_sale |-> parse_currency(groups[12])]

\* IBKRNetGain with the wash sale taken off the net gain.
IBKRNetGainLessWash(f) == f.proceeds - f.cost_basis - f.wash_sale

\* proceeds - cost_basis, the row's net gain
IBKRNetGain(f) == f.proceeds - f.cost_basis

\* The transaction appended for a matched row.
IBKRTransaction(f) ==
    [cusip |-> f.cusip,
     description |->
        join(<<f.company_name, f.cusip, f.symbol, NatStr(f.quantity \div Scale),
               f.form_type, f.action, f.date_sold, f.date_acquired,
               FloatStr(f.proceeds), FloatStr(f.cost_basis),
               FloatStr(f.market_discount), FloatStr(f.wash_sale)>>),
     dateAcquired |-> f.date_acquired,
     dateSold |-> f.date_sold,
     proceeds |-> f.proceeds,
     costBasis |-> f.cost_basis,
     washSaleLoss |-> f.wash_sale,
     netGainLoss |-> IBKRNetGain(f),
     quantity |-> f.quantity,
     isLongTerm |-> FALSE,
     formType |-> f.form_type]

ZeroTotals ==
    [total_proceeds |-> 0, total_cost_basis |-> 0,
     total_wash_sale |-> 0, total_net_gain |-> 0]

\* IBKRAppend without the line total_wash_sale += wash_sale.
IBKRAppendNoWashTotal(acc, f) ==
    [transactions |-> Append(acc.transactions, IBKRTransaction(f)),
     totals |->
        [total_proceeds |-> acc.totals.total_proceeds + f.proceeds,
         total_cost_basis |-> acc.totals.total_cost_basis + f.cost_basis,
         total_wash_sale |-> acc.totals.total_wash_sale,
         total_net_gain |-> acc.totals.total_net_gain + IBKRNetGain(f)]]

\* The transactions and running totals after the row with the fields f.
IBKRAppend(acc, f) ==
    [transactions |-> Append(acc.transactions, IBKRTransaction(f)),
     totals |->
        [total_proceeds |-> acc.totals.total_proceeds + f.proceeds,
         total_cost_basis |-> acc.totals.total_cost_basis + f.cost_basis,
         total_wash_sale |-> acc.totals.total_wash_sale + f.wash_sale,
         total_net_gain |-> acc.totals.total_net_gain + IBKRNetGain(f)]]

\* The body of the inner loop for one stripped line and its match m: blank
\* lines and lines without a match are skipped.
IBKRLine(pattern_idx, line, m, acc) ==
    IF line = <<>> \/ ~m.ok THEN acc
    ELSE IBKRAppend(acc, IBKRFields(pattern_idx, m.groups, Len(acc.transactions)))

\* One pass of the inner loop of parse_interactive_brokers_pdf: the lines from
\* i on under patterns[pattern_idx], from the transactions and running totals
\* acc = [transactions, totals].
RECURSIVE IBKRScan(_, _, _, _)
IBKRScan(lines, i, pattern_idx, acc) ==
    IF i > Len(lines) THEN acc
    ELSE IBKRScan(lines, i + 1, pattern_idx,
                  IBKRLine(pattern_idx, strip(lines[i]),
                           IBKRSearch(pattern_idx, strip(lines[i])), acc))

\* IBKRBreak without the break: every pattern gets its pass.
IBKRBreakNever(txs) == FALSE

\* Whether the loop over the patterns ends after this pass (the break).
IBKRBreak(txs) == txs # <<>>

\* The number of row patterns.
NumPatterns == 3

\* What parse_interactive_brokers_pdf returns after its loop.
IBKRResult(txs, t) ==
    IF txs # <<>> THEN
        Some([totalProceeds |-> t.total_proceeds,
              totalCostBasis |-> t.total_cost_basis,
              totalNetGainLoss |-> t.total_net_gain,
              totalWashSaleLoss |-> t.total_wash_sale,
              shortTermProceeds |-> t.total_proceeds,
              shortTermCostBasis |-> t.total_cost_basis,
              shortTermNetGainLoss |-> t.total_net_gain,
              longTermProceeds |-> 0,
              longTermCostBasis |-> 0,
              longTermNetGainLoss |-> 0,
              transactions |-> txs])
    ELSE None

\* parse_schwab_td_pdf reading the summary rows as parse_robinhood_pdf does.
parse_schwab_td_pdfSummary(text) == parse_robinhood_pdf(text)

parse_schwab_td_pdf(text) == None

parse_fidelity_pdf(text) == None

\* WithMetadata with the net total aggregated again from the other totals.
WithMetadataRecomputed(r, brokerage) ==
    [totalProceeds |-> r.totalProceeds,
     totalCostBasis |-> r.totalCostBasis,
     totalNetGainLoss |-> r.totalProceeds - r.totalCostBasis,
     totalWashSaleLoss |-> r.totalWashSaleLoss,
     shortTermProceeds |-> r.shortTermProceeds,
     shortTermCostBasis |-> r.shortTermCostBasis,
     shortTermNetGainLoss |-> r.shortTermNetGainLoss,
     longTermProceeds |-> r.longTermProceeds,
     longTermCostBasis |-> r.longTermCostBasis,
     longTermNetGainLoss |-> r.longTermNetGainLoss,
     transactions |-> r.transactions,
     brokerage |-> brokerage,
     accountNumber |-> "Unknown",
     taxpayerName |-> "Line",
     documentId |-> <<brokerage, "-1099B">>]

\* main adds the common metadata to the parser's dictionary and prints it.
WithMetadata(r, brokerage) ==
    [totalProceeds |-> r.totalProceeds,
     totalCostBasis |-> r.totalCostBasis,
     totalNetGainLoss |-> r.totalNetGainLoss,
     totalWashSaleLoss |-> r.totalWashSaleLoss,
     shortTermProceeds |-> r.shortTermProceeds,
     shortTermCostBasis |-> r.shortTermCostBasis,
     shortTermNetGainLoss |-> r.shortTermNetGainLoss,
     longTermProceeds |-> r.longTermProceeds,
     longTermCostBasis |-> r.longTermCostBasis,
     longTermNetGainLoss |-> r.longTermNetGainLoss,
     transactions |-> r.transactions,
     brokerage |-> brokerage,
     accountNumber |-> "Unknown",
     taxpayerName |-> "Line",
     documentId |-> <<brokerage, "-1099B">>]

\* The object main prints when parsing fails.
ErrorJson == [error |-> "parsing failed"]

----------------------------------------------------------------------------
\* parse_pdf_fixed.py (parse_pdf.py has the same three helpers)

\* standardize_date without the century put before a year of two digits.
standardize_dateShortYear(date_str) ==
    IF date_str = <<>> THEN <<>>
    ELSE LET parts == split(date_str, "/")
         IN  IF "/" \in Range(date_str) /\ Len(parts) = 3
             THEN zfill2(parts[1]) \o <<"/">> \o zfill2(parts[2]) \o <<"/">> \o parts[3]
             ELSE date_str

\* standardize_date: MM/DD/YYYY from a '/'-separated triple, any other string
\* as it is.
standardize_date(date_str) ==
    IF date_str = <<>> THEN <<>>
    ELSE LET parts == split(date_str, "/")
         IN  IF "/" \in Range(date_str) /\ Len(parts) = 3
             THEN LET year == IF Len(parts[3]) = 2 THEN <<"2", "0">> \o parts[3]
                              ELSE parts[3]
                  IN  zfill2(parts[1]) \o <<"/">> \o zfill2(parts[2]) \o <<"/">> \o year
             ELSE date_str

\* float(cleaned), 0.0 where it raises
FloatOrZero(value) == IF value.ok THEN value.v ELSE 0

\* parse_currency of parse_pdf_fixed.py: every character but digits and '.'
\* is removed.
parse_currency_fixed(currency_str) ==
    IF currency_str = <<>> THEN 0
    ELSE IF SelectSeq(currency_str, LAMBDA c : c \in Digit \cup {"."}) = <<>> THEN 0
    ELSE FloatOrZero(float(SelectSeq(currency_str, LAMBDA c : c \in Digit \cup {"."})))

IsLeap(y) == (y % 4 = 0 /\ y % 100 # 0) \/ y % 400 = 0

DaysInMonth(y, m) ==
    IF m = 2 THEN (IF IsLeap(y) THEN 28 + 1 ELSE 28)
    ELSE IF m \in {4, 6, 9, 11} THEN 30 ELSE 31

\* The date of the three parts of a string split at '/'.
DateOf(parts) ==
    LET wellFormed == /\ Len(parts) = 3
                      /\ Len(parts[1]) \in 1..2 /\ All(parts[1], Digit)
                      /\ Len(parts[2]) \in 1..2 /\ All(parts[2], Digit)
                      /\ Len(parts[3]) = 4 /\ All(parts[3], Digit)
        m == DigitsVal(parts[1])
        d == DigitsVal(parts[2])
        y == DigitsVal(parts[3])
    IN  IF wellFormed /\ m \in 1..12 /\ y >= 1 /\ d >= 1 /\ d <= DaysInMonth(y, m)
        THEN [ok |-> TRUE, y |-> y, m |-> m, d |-> d]
        ELSE [ok |-> FALSE, y |-> 0, m |-> 0, d |-> 0]

\* datetime.strptime(s, "%m/%d/%Y"): ok is FALSE where it raises ValueError.
strptime(s) == DateOf(split(s, "/"))

\* The day number of a date of the proleptic Gregorian calendar.
DayNumber(y, m, d) ==
    LET yy == IF m <= 2 THEN y - 1 ELSE y
        era == yy \div 400
        yoe == yy - era * 400
        mp == IF m > 2 THEN m - 3 ELSE m + 9
        doy == (153 * mp + 2) \div 5 + d - 1
    IN  era * 146097 + yoe * 365 + yoe \div 4 - yoe \div 100 + doy

\* LongTermDays a day shorter.
LongTermDaysLess == 365 - 1

\* The days a position must be held beyond to be long-term.
LongTermDays == 365

\* HeldLong with a holding of exactly LongTermDays days counted as long.
HeldLongFromOneYear(acquired, sold) ==
    /\ acquired.ok /\ sold.ok
    /\ DayNumber(sold.y, sold.m, sold.d)
         - DayNumber(acquired.y, acquired.m, acquired.d) >= LongTermDays

\* (sold - acquired).days > 365 for two parsed dates
HeldLong(acquired, sold) ==
    /\ acquired.ok /\ sold.ok
    /\ DayNumber(sold.y, sold.m, sold.d)
         - DayNumber(acquired.y, acquired.m, acquired.d) > LongTermDays

\* is_long_term_investment: FALSE also when a date does not parse.
is_long_term_investment(date_acquired, date_sold) ==
    HeldLong(strptime(date_acquired), strptime(date_sold))

\* The section keywords of extract_transactions_from_text.
SectionKeywords ==
    {<<"F", "O", "R", "M", " ", "1", "0", "9", "9", "-", "B">>, <<"P", "R", "O", "C", "E", "E", "D", "S", " ", "F", "R", "O", "M", " ", "B", "R", "O", "K", "E", "R">>, <<"R", "E", "P", "O", "R", "T", "I", "N", "G", " ", "G", "A", "I", "N">>,
     <<"S", "H", "O", "R", "T", "-", "T", "E", "R", "M", " ", "T", "R", "A", "N", "S", "A", "C", "T", "I", "O", "N", "S">>, <<"L", "O", "N", "G", "-", "T", "E", "R", "M", " ", "T", "R", "A", "N", "S", "A", "C", "T", "I", "O", "N", "S">>,
     <<"S", "T", "O", "C", "K", "S", ",", " ", "B", "O", "N", "D", "S", ",", " ", "E", "T", "C">>, <<"S", "E", "C", "U", "R", "I", "T", "I", "E", "S", " ", "T", "R", "A", "N", "S", "A", "C", "T", "I", "O", "N", "S">>}

IsSectionStart(line) == \E kw \in SectionKeywords : Contains(upper(line), kw)

\* What follows the whitespace that starts at position p: the (.+) after \s+.
Rest(line, p) == From(line, RunEnd(line, p, Whitespace) + 1)

\* re.match(r'^([A-Z0-9]{9})\s+(.+)', line)
cusip_match(line) ==
    IF /\ Len(line) >= 11
       /\ All(SubSeq(line, 1, 9), Upper \cup Digit)
       /\ line[10] \in Whitespace
       /\ Rest(line, 10) # <<>>
    THEN Match(<<SubSeq(line, 1, 9), Rest(line, 10)>>) ELSE NoMatch

\* re.match(r'^([A-Z]{1,5})\s+(.+)', line)
ticker_match(line) ==
    LET r == RunEnd(line, 1, Upper)
    IN  IF /\ r \in 1..5
           /\ r + 1 <= Len(line) /\ line[r + 1] \in Whitespace
           /\ Rest(line, r + 1) # <<>>
        THEN Match(<<SubSeq(line, 1, r), Rest(line, r + 1)>>) ELSE NoMatch

CompanySuffixes == <<<<"I", "n", "c">>, <<"C", "o", "r", "p">>, <<"C", "o">>, <<"L", "L", "C">>, <<"L", "t", "d">>>>

\* re.match(r'^([A-Z][a-zA-Z\s&.]+(?:Inc|Corp|Co|LLC|Ltd))\s*(.+)', line): the
\* greedy name takes the last suffix that leaves a character after it, and at
\* one place the first suffix of the alternation.
company_match(line) ==
    LET e == RunEnd(line, 2, Letter \cup Whitespace \cup {"&", "."})
        Fits(q, n) == LET kw == CompanySuffixes[n]
                      IN  /\ q + Len(kw) - 1 <= e
                          /\ q + Len(kw) - 1 < Len(line)
                          /\ SubSeq(line, q, q + Len(kw) - 1) = kw
        Q == {q \in 3..e : \E n \in DOMAIN CompanySuffixes : Fits(q, n)}
    IN  IF line # <<>> /\ line[1] \in Upper /\ Q # {}
        THEN LET q == Max(Q)
                 n == Min({k \in DOMAIN CompanySuffixes : Fits(q, k)})
                 z == q + Len(CompanySuffixes[n]) - 1
             IN  Match(<<SubSeq(line, 1, z), Rest(line, z + 1)>>)
        ELSE NoMatch

\* re.findall(r'\b(\d{1,2}/\d{1,2}/\d{2,4})\b', s) from position p on
RECURSIVE FindDates(_, _)
FindDates(s, p) ==
    IF p > Len(s) THEN <<>>
    ELSE LET n == IF s[p] \in Digit /\ (p = 1 \/ s[p - 1] \notin WordChar)
                  THEN DateAt(s, p, 2) ELSE 0
         IN  IF n > 0 THEN <<SubSeq(s, p, p + n - 1)>> \o FindDates(s, p + n)
             ELSE FindDates(s, p + 1)

\* re.findall(r'\$?([\d,]+\.?\d*)', s) from position p on
RECURSIVE FindAmounts(_, _)
FindAmounts(s, p) ==
    IF p > Len(s) THEN <<>>
    ELSE LET m == NumberAt(s, p)
         IN  IF m.len > 0 THEN <<m.group>> \o FindAmounts(s, p + m.len)
             ELSE FindAmounts(s, p + 1)

\* float(amount.replace(',', ''))
AmountValue(a) == float(SelectSeq(a, LAMBDA c : c # ","))

\* Whether parse_transaction_lines keeps the amount: it has a '.' or a ','
\* and its value is positive.
KeepsAmount(a) ==
    /\ ("." \in Range(a) \/ "," \in Range(a))
    /\ AmountValue(a).ok /\ AmountValue(a).v > 0

Values(kept) == [k \in DOMAIN kept |-> AmountValue(kept[k]).v]

\* The amounts parse_transaction_lines keeps of one line.
KeptAmounts(s) == Values(SelectSeq(FindAmounts(s, 1), KeepsAmount))

\* The lines the stitching scans: lines[start_idx] and the four after it.
StitchWindow == 5

RECURSIVE StitchDates(_, _, _)
StitchDates(lines, i, last) ==
    IF i > last THEN <<>>
    ELSE FindDates(strip(lines[i]), 1) \o StitchDates(lines, i + 1, last)

RECURSIVE StitchAmounts(_, _, _)
StitchAmounts(lines, i, last) ==
    IF i > last THEN <<>>
    ELSE KeptAmounts(strip(lines[i])) \o StitchAmounts(lines, i + 1, last)

\* proceeds and cost basis of a stitched row
StitchProceeds(amounts) == Max(Range(amounts))

StitchCostBasis(amounts) == Min(Range(amounts))

\* The transaction of two standardized dates and two amounts.
StitchedRow(cusip, description, date_acquired, date_sold, proceeds, cost_basis, long) ==
    [cusip |-> cusip,
     description |-> upper(description),
     dateAcquired |-> date_acquired,
     dateSold |-> date_sold,
     proceeds |-> proceeds,
     costBasis |-> cost_basis,
     netGainLoss |-> proceeds - cost_basis,
     quantity |-> Units(1),
     isLongTerm |-> long,
     washSaleLoss |-> 0,
     formType |-> IF long THEN <<"D">> ELSE <<"A">>]

\* The transaction of the dates and amounts collected, None when there are
\* fewer than two of either.
Stitched(cusip, description, dates, amounts) ==
    IF Len(dates) >= 2 /\ Len(amounts) >= 2
    THEN Some(StitchedRow(cusip, description,
                          standardize_date(dates[1]), standardize_date(dates[2]),
                          StitchProceeds(amounts), StitchCostBasis(amounts),
                          is_long_term_investment(standardize_date(dates[1]),
                                                  standardize_date(dates[2]))))
    ELSE None

StitchLastToEnd(lines, start_idx) == Len(lines)

\* The last line the stitching scans from start_idx.
StitchLast(lines, start_idx) ==
    IF start_idx + StitchWindow - 1 < Len(lines)
    THEN start_idx + StitchWindow - 1 ELSE Len(lines)

\* parse_transaction_lines(lines, start_idx, cusip, description); lines are
\* numbered from 1 here.
parse_transaction_lines(lines, start_idx, cusip, description) ==
    Stitched(cusip, description,
             StitchDates(lines, start_idx, StitchLast(lines, start_idx)),
             StitchAmounts(lines, start_idx, StitchLast(lines, start_idx)))

\* The first of the three results that is a transaction.
FirstSome(a, b, c) == IF a # None THEN a ELSE IF b # None THEN b ELSE c

\* parse_transaction_lines for the match m of a line shape, None without a
\* match; the description is the groups joined with a blank.
ShapeRow(lines, i, m, cusip, description) ==
    IF m.ok THEN parse_transaction_lines(lines, i, cusip, description) ELSE None

Described(m) == IF m.ok THEN m.groups[1] \o <<" ">> \o m.groups[2] ELSE <<>>

\* The stitched transaction of a line inside the transaction section: the
\* CUSIP, ticker and company shapes in turn, each leaving the line to the
\* next when parse_transaction_lines returns None.
SectionShapes(lines, i, c, t, n) ==
    FirstSome(ShapeRow(lines, i, c, IF c.ok THEN c.groups[1] ELSE <<>>,
                       IF c.ok THEN c.groups[2] ELSE <<>>),
              ShapeRow(lines, i, t, <<>>, Described(t)),
              ShapeRow(lines, i, n, <<>>, Described(n)))

SectionRow(lines, i) ==
    SectionShapes(lines, i, cusip_match(strip(lines[i])),
                  ticker_match(strip(lines[i])), company_match(strip(lines[i])))

\* The amounts after the two dates of patterns[1], .*?\$?([\d,]+\.?\d*)\s+
\* .*?\$?([\d,]+\.?\d*) from the word ws[k] on: the first is the end of the
\* first word that ends as a number and has a digit or comma after it in the
\* line, the second the first number after that word.
TailAmounts(ws, k) ==
    LET HasNumber(w) == \E p \in DOMAIN w : w[p] \in Digit \cup {","}
        M == {m \in k..(Len(ws) - 1) :
                /\ SuffixStart(ws[m], NumberRe) > 0
                /\ \E j \in (m + 1)..Len(ws) : HasNumber(ws[j])}
    IN  IF M = {} THEN NoMatch
        ELSE LET m == Min(M)
                 j == Min({x \in (m + 1)..Len(ws) : HasNumber(ws[x])})
                 p == Min({x \in DOMAIN ws[j] : ws[j][x] \in Digit \cup {","}})
             IN  Match(<<NumberAt(ws[m], SuffixStart(ws[m], NumberRe)).group,
                         NumberAt(ws[j], p).group>>)

\* Whether the end of the word is [A-Z0-9]{9} under re.IGNORECASE
Alnum9End(w) == Len(w) >= 9 /\ All(From(w, Len(w) - 8), Letter \cup Digit)

\* patterns[1] of the line scanner on the words of a line: CUSIP, name words,
\* two dates, two amounts
FixedPattern1(ws) ==
    LET NameEnd(i) == Min({k \in (i + 1)..(Len(ws) + 1) :
                              k = Len(ws) + 1 \/ ~All(ws[k], Letter)})
        At(i) == /\ Alnum9End(ws[i])
                 /\ NameEnd(i) > i + 1
                 /\ NameEnd(i) + 1 <= Len(ws)
                 /\ DateRe(ws[NameEnd(i)]) /\ DateRe(ws[NameEnd(i) + 1])
                 /\ TailAmounts(ws, NameEnd(i) + 2).ok
        I == {i \in DOMAIN ws : At(i)}
    IN  IF I = {} THEN NoMatch
        ELSE LET i == Min(I)
                 k == NameEnd(i)
             IN  Match(<<From(ws[i], Len(ws[i]) - 8), join(SubSeq(ws, i + 1, k - 1)),
                         ws[k], ws[k + 1]>> \o TailAmounts(ws, k + 2).groups)

\* The start of ([A-Z]{3,5}) at the end of a word, 0 when the word does not
\* end in three letters.
SymbolStart(w) ==
    LET r == Len(w) - RunStart(w, Len(w), Letter) + 1
    IN  IF r < 3 THEN 0 ELSE IF r > 5 THEN Len(w) - 4 ELSE Len(w) - r + 1

\* patterns[2] of the line scanner: symbol, two dates, quantity, two amounts
FixedPattern2(ws) ==
    LET At(i) == /\ i + 5 <= Len(ws)
                 /\ SymbolStart(ws[i]) > 0
                 /\ DateRe(ws[i + 1]) /\ DateRe(ws[i + 2])
                 /\ DecimalRe(ws[i + 3])
                 /\ NumberRe(ws[i + 4])
                 /\ NumberAt(ws[i + 5], 1).len > 0
        I == {i \in DOMAIN ws : At(i)}
    IN  IF I = {} THEN NoMatch
        ELSE LET i == Min(I)
             IN  Match(<<From(ws[i], SymbolStart(ws[i])), ws[i + 1], ws[i + 2],
                         ws[i + 3], NumberAt(ws[i + 4], 1).group,
                         NumberAt(ws[i + 5], 1).group>>)

\* len(match.groups()) of patterns[0..3]
PatternGroups == <<5, 6, 6, 3>>

\* re.search(patterns[n], line, re.IGNORECASE) for the two patterns with six
\* groups.  patterns[0] has five groups and patterns[3] three: a match of
\* either fails len(groups) >= 6 and adds nothing.
FixedSearch(n, line) ==
    IF n = 1 THEN FixedPattern1(words(line))
    ELSE IF n = 2 THEN FixedPattern2(words(line))
    ELSE NoMatch

\* The number before SHARE, SHARES or SH in the words of a line, in
\* hundredths; -1 when there is none.
QuantityIn(ws) ==
    LET J == {j \in 1..(Len(ws) - 1) :
                /\ SuffixStart(ws[j], DecimalRe) > 0
                /\ startswith(lower(ws[j + 1]), <<"s", "h">>)}
    IN  IF J = {} THEN -1
        ELSE float(From(ws[Min(J)], SuffixStart(ws[Min(J)], DecimalRe))).v

\* re.search(r'(\d+(?:\.\d+)?)\s+(?:SHARES?|SH)', line, re.IGNORECASE)
QuantitySearch(line) == QuantityIn(words(line))

\* The quantity found in one line, otherwise that of the lines after it.
FirstQuantity(q, otherwise) == IF q >= 0 THEN q ELSE otherwise

\* The quantity of the row at line i: the first match in lines i-2 .. i+2,
\* 1 when there is none.
RECURSIVE QuantityNear(_, _, _)
QuantityNear(lines, j, last) ==
    IF j > last THEN Units(1)
    ELSE FirstQuantity(QuantitySearch(lines[j]), QuantityNear(lines, j + 1, last))

\* The transaction of a pattern row, None when an amount is not positive.
RowOf(symbol, date_acquired, date_sold, quantity, proceeds, cost_basis, long) ==
    IF proceeds > 0 /\ cost_basis > 0
    THEN Some([description |-> symbol \o <<" ", "C", "O", "M", "M", "O", "N", " ", "S", "T", "O", "C", "K">>,
               dateAcquired |-> date_acquired,
               dateSold |-> date_sold,
               quantity |-> quantity,
               proceeds |-> proceeds,
               costBasis |-> cost_basis,
               netGainLoss |-> proceeds - cost_basis,
               isLongTerm |-> long,
               washSaleLoss |-> 0,
               formType |-> IF long THEN <<"D">> ELSE <<"A">>])
    ELSE None

\* The transaction the line scanner builds from the groups of a match: the
\* dates are groups[-4] and groups[-3], the amounts groups[-2] and groups[-1].
PatternRow(lines, i, groups) ==
    RowOf(strip(groups[1]),
          standardize_date(groups[Len(groups) - 3]),
          standardize_date(groups[Len(groups) - 2]),
          QuantityNear(lines, IF i - 2 < 1 THEN 1 ELSE i - 2,
                       IF i + 2 > Len(lines) THEN Len(lines) ELSE i + 2),
          parse_currency_fixed(groups[Len(groups) - 1]),
          parse_currency_fixed(groups[Len(groups)]),
          is_long_term_investment(standardize_date(groups[Len(groups) - 3]),
                                  standardize_date(groups[Len(groups) - 2])))

\* The row of the match m of patterns[n]: only a match with six groups or
\* more builds one.
MatchRow(lines, i, n, m) ==
    IF m.ok /\ PatternGroups[n + 1] >= 6 THEN PatternRow(lines, i, m.groups)
    ELSE <<>>

\* The transactions the loop over patterns[n..3] adds for line i.
RECURSIVE PatternRows(_, _, _)
PatternRows(lines, i, n) ==
    IF n >= Len(PatternGroups) THEN <<>>
    ELSE MatchRow(lines, i, n, FixedSearch(n, strip(lines[i])))
         \o PatternRows(lines, i, n + 1)

\* The transactions line i adds, and whether the scan is inside the
\* transaction section after it; row is the stitched row of the line.
LineStep(lines, i, in_section, row) ==
    IF IsSectionStart(strip(lines[i])) THEN [rows |-> <<>>, in_section |-> TRUE]
    ELSE IF in_section /\ row # None THEN [rows |-> row, in_section |-> in_section]
    ELSE [rows |-> PatternRows(lines, i, 0), in_section |-> in_section]

LineRows(lines, i, in_section) == LineStep(lines, i, in_section, SectionRow(lines, i))

RECURSIVE ScanLines(_, _, _)

\* The rows of a line, then those of the lines after it.
Following(lines, i, r) == r.rows \o ScanLines(lines, i + 1, r.in_section)

ScanLines(lines, i, in_section) ==
    IF i > Len(lines) THEN <<>>
    ELSE Following(lines, i, LineRows(lines, i, in_section))

\* extract_transactions_from_text of parse_pdf_fixed.py
extract_transactions_from_text(lines) == ScanLines(lines, 1, FALSE)

\* The three hardcoded sample transactions.
SampleTransactions ==
    << [cusip |-> <<>>, description |-> <<"T", "E", "S", "L", "A", " ", "I", "N", "C", " ", "C", "O", "M", "M", "O", "N", " ", "S", "T", "O", "C", "K">>,
        dateAcquired |-> <<"0", "3", "/", "1", "5", "/", "2", "0", "2", "4">>, dateSold |-> <<"1", "1", "/", "2", "2", "/", "2", "0", "2", "4">>,
        proceeds |-> Units(12500), costBasis |-> Units(10000), washSaleLoss |-> 0,
        netGainLoss |-> Units(2500), quantity |-> Units(50),
        isLongTerm |-> TRUE, formType |-> <<"D">>],
       [cusip |-> <<>>, description |-> <<"A", "P", "P", "L", "E", " ", "I", "N", "C", " ", "C", "O", "M", "M", "O", "N", " ", "S", "T", "O", "C", "K">>,
        dateAcquired |-> <<"0", "6", "/", "1", "0", "/", "2", "0", "2", "4">>, dateSold |-> <<"1", "2", "/", "0", "1", "/", "2", "0", "2", "4">>,
        proceeds |-> Units(4750), costBasis |-> Units(4500), washSaleLoss |-> 0,
        netGainLoss |-> Units(250), quantity |-> Units(25),
        isLongTerm |-> FALSE, formType |-> <<"A">>],
       [cusip |-> <<>>, description |-> <<"N", "V", "I", "D", "I", "A", " ", "C", "O", "R", "P", " ", "C", "O", "M", "M", "O", "N", " ", "S", "T", "O", "C", "K">>,
        dateAcquired |-> <<"0", "1", "/", "2", "0", "/", "2", "0", "2", "4">>, dateSold |-> <<"1", "0", "/", "1", "5", "/", "2", "0", "2", "4">>,
        proceeds |-> Units(18750), costBasis |-> Units(15000), washSaleLoss |-> 0,
        netGainLoss |-> Units(3750), quantity |-> Units(15),
        isLongTerm |-> TRUE, formType |-> <<"D">>] >>

SampleSummary ==
    [totalProceeds |-> Units(36000), totalCostBasis |-> Units(29500),
     totalNetGainLoss |-> Units(6500), shortTermGainLoss |-> Units(250),
     longTermGainLoss |-> Units(6250)]

\* sum(t.get(field, 0) for t in txs)
RECURSIVE Sum(_, _)
Sum(txs, field) ==
    IF txs = <<>> THEN 0 ELSE Head(txs)[field] + Sum(Tail(txs), field)

IsLong(t) == t.isLongTerm

IsShort(t) == ~t.isLongTerm

\* result as parse_robinhood_pdf of parse_pdf_fixed.py initialises it
FixedInitialResult ==
    [success |-> FALSE, broker |-> "Robinhood", accountNumber |-> "Unknown",
     taxpayerName |-> "Line", transactions |-> <<>>,
     summary |-> [totalProceeds |-> 0, totalCostBasis |-> 0, totalNetGainLoss |-> 0,
                  shortTermGainLoss |-> 0, longTermGainLoss |-> 0]]

\* The summary of the totals of extracted transactions.
SummaryOf(total_proceeds, total_cost_basis, short_term, long_term) ==
    [totalProceeds |-> total_proceeds,
     totalCostBasis |-> total_cost_basis,
     totalNetGainLoss |-> total_proceeds - total_cost_basis,
     shortTermGainLoss |-> short_term,
     longTermGainLoss |-> long_term]

\* The summary computed from extracted transactions.
FixedSummary(txs) ==
    SummaryOf(Sum(txs, "proceeds"), Sum(txs, "costBasis"),
              Sum(SelectSeq(txs, IsShort), "netGainLoss"),
              Sum(SelectSeq(txs, IsLong), "netGainLoss"))

\* The transactions parse_robinhood_pdf reports when the scan found none.
FixedFallback == SampleTransactions

\* The result of parse_robinhood_pdf of parse_pdf_fixed.py for the extracted
\* transactions.
FixedResult(txs) ==
    IF txs # <<>>
    THEN [FixedInitialResult EXCEPT !.success = TRUE, !.transactions = txs,
                                    !.summary = FixedSummary(txs)]
    ELSE [FixedInitialResult EXCEPT !.success = TRUE,
                                    !.transactions = FixedFallback,
                                    !.summary = SampleSummary]

\* The result after an exception e inside the try block.
WithError(result, e) ==
    [success |-> result.success, broker |-> result.broker,
     accountNumber |-> result.accountNumber, taxpayerName |-> result.taxpayerName,
     transactions |-> result.transactions, summary |-> result.summary,
     error |-> e]

----------------------------------------------------------------------------
\* parse_pdf.py

\* result as parse_robinhood_pdf of parse_pdf.py initialises it
PdfInitialResult ==
    [success |-> TRUE, broker |-> "Robinhood", accountNumber |-> "",
     taxpayerName |-> "", transactions |-> <<>>,
     summary |-> [totalProceeds |-> 0, totalCostBasis |-> 0, totalNetGainLoss |-> 0,
                  shortTermGainLoss |-> 0, longTermGainLoss |-> 0]]

\* A line with a section keyword of extract_transactions_from_text of
\* parse_pdf.py.
PdfIsSectionStart(line) ==
    \E kw \in {<<"P", "R", "O", "C", "E", "E", "D", "S", " ", "F", "R", "O", "M", " ", "B", "R", "O", "K", "E", "R">>, <<"S", "T", "O", "C", "K", " ", "T", "R", "A", "N", "S", "A", "C", "T", "I", "O", "N", "S">>,
               <<"S", "E", "C", "U", "R", "I", "T", "I", "E", "S", " ", "S", "O", "L", "D">>, <<"C", "O", "V", "E", "R", "E", "D", " ", "S", "E", "C", "U", "R", "I", "T", "I", "E", "S">>,
               <<"N", "O", "N", "C", "O", "V", "E", "R", "E", "D", " ", "S", "E", "C", "U", "R", "I", "T", "I", "E", "S">>, <<"F", "O", "R", "M", " ", "8", "9", "4", "9">>} :
        Contains(upper(line), kw)

\* The line scan of parse_pdf.py: the loop over the patterns is that of
\* parse_pdf_fixed.py, and runs on the lines after a section keyword only.
RECURSIVE PdfScanLines(_, _, _)
PdfScanLines(lines, i, transaction_section) ==
    IF i > Len(lines) THEN <<>>
    ELSE IF PdfIsSectionStart(strip(lines[i])) THEN PdfScanLines(lines, i + 1, TRUE)
    ELSE IF ~transaction_section THEN PdfScanLines(lines, i + 1, FALSE)
    ELSE PatternRows(lines, i, 0) \o PdfScanLines(lines, i + 1, TRUE)

\* The local transactions of extract_transactions_from_text of parse_pdf.py
\* when it reaches stock_patterns: the rows of the line scan, the three
\* samples when there is none.
PdfTransactions(lines) ==
    IF PdfScanLines(lines, 1, FALSE) = <<>> THEN SampleTransactions
    ELSE PdfScanLines(lines, 1, FALSE)

\* extract_transactions_from_text of parse_pdf.py: after its line scan and its
\* sample substitution it iterates over stock_patterns, a name the module
\* never binds, so the call ends in NameError for every text.
PdfExtractRaises(lines) == TRUE

PdfFailureKeepsSuccess(result, e) == WithError(result, e)

\* The result of the except branch: success False and the error text.
PdfFailure(result, e) == WithError([result EXCEPT !.success = FALSE], e)

----------------------------------------------------------------------------
\* The input documents: one page of text, a header line followed by at most
\* MaxLines body lines.

\* (an empty line)
H_None ==
    <<>>
\* Robinhood Securities
H_Robinhood ==
    <<"R", "o", "b", "i", "n", "h", "o", "o", "d", " ", "S", "e", "c", "u", "r", "i", "t", "i", "e", "s">>
\* Interactive Brokers LLC
H_IBKR ==
    <<"I", "n", "t", "e", "r", "a", "c", "t", "i", "v", "e", " ", "B", "r", "o", "k", "e", "r", "s", " ", "L", "L", "C">>
\* Charles SCHWAB
H_Schwab ==
    <<"C", "h", "a", "r", "l", "e", "s", " ", "S", "C", "H", "W", "A", "B">>
\* Fidelity
H_Fidelity ==
    <<"F", "i", "d", "e", "l", "i", "t", "y">>
\* E*TRADE
H_Etrade ==
    <<"E", "*", "T", "R", "A", "D", "E">>
\* Fidelity Schwab
H_FidelitySchwab ==
    <<"F", "i", "d", "e", "l", "i", "t", "y", " ", "S", "c", "h", "w", "a", "b">>
\* FORM 1099-B
H_Section ==
    <<"F", "O", "R", "M", " ", "1", "0", "9", "9", "-", "B">>
\* PROCEEDS FROM BROKER
H_ProceedsSection ==
    <<"P", "R", "O", "C", "E", "E", "D", "S", " ", "F", "R", "O", "M", " ", "B", "R", "O", "K", "E", "R">>
\* Grand total 1,000.00 800.00 0.00 50.00 250.00
B_GrandTotal ==
    <<"G", "r", "a", "n", "d", " ", "t", "o", "t", "a", "l", " ", "1", ",", "0", "0", "0", ".", "0", "0", " ", "8", "0", "0", ".", "0", "0", " ", "0", ".", "0", "0", " ", "5", "0", ".", "0", "0", " ", "2", "5", "0", ".", "0", "0">>
\* GRANDTOTAL 800.00 1,000.00 0.00 0.00 -200.00
B_GrandtotalNeg ==
    <<"G", "R", "A", "N", "D", "T", "O", "T", "A", "L", " ", "8", "0", "0", ".", "0", "0", " ", "1", ",", "0", "0", "0", ".", "0", "0", " ", "0", ".", "0", "0", " ", "0", ".", "0", "0", " ", "-", "2", "0", "0", ".", "0", "0">>
\* Total Short-term 500.00 300.00 0.00 0.00 200.00
B_TotalShort ==
    <<"T", "o", "t", "a", "l", " ", "S", "h", "o", "r", "t", "-", "t", "e", "r", "m", " ", "5", "0", "0", ".", "0", "0", " ", "3", "0", "0", ".", "0", "0", " ", "0", ".", "0", "0", " ", "0", ".", "0", "0", " ", "2", "0", "0", ".", "0", "0">>
\* Grand total 1,000.00 800.00
B_GrandTotalCut ==
    <<"G", "r", "a", "n", "d", " ", "t", "o", "t", "a", "l", " ", "1", ",", "0", "0", "0", ".", "0", "0", " ", "8", "0", "0", ".", "0", "0">>
\* 0.00 50.00 250.00
B_ThreeMoney ==
    <<"0", ".", "0", "0", " ", "5", "0", ".", "0", "0", " ", "2", "5", "0", ".", "0", "0">>
\* 1,500.00 1,000.00 0.00 25.00
B_FourMoney ==
    <<"1", ",", "5", "0", "0", ".", "0", "0", " ", "1", ",", "0", "0", "0", ".", "0", "0", " ", "0", ".", "0", "0", " ", "2", "5", ".", "0", "0">>
\* ELI LILLY 700.00 900.00 0.00 0.00
B_CompanyMoney ==
    <<"E", "L", "I", " ", "L", "I", "L", "L", "Y", " ", "7", "0", "0", ".", "0", "0", " ", "9", "0", "0", ".", "0", "0", " ", "0", ".", "0", "0", " ", "0", ".", "0", "0">>
\* ELI LILLY 532457108 LLY 10 A SALE 1/2/2024 3/4/2023 1,000.00 800.00 0.00 0.00
B_FullRow ==
    <<"E", "L", "I", " ", "L", "I", "L", "L", "Y", " ", "5", "3", "2", "4", "5", "7", "1", "0", "8", " ", "L", "L", "Y", " ", "1", "0", " ", "A", " ", "S", "A", "L", "E", " ", "1", "/", "2", "/", "2", "0", "2", "4", " ", "3", "/", "4", "/", "2", "0", "2", "3", " ", "1", ",", "0", "0", "0", ".", "0", "0", " ", "8", "0", "0", ".", "0", "0", " ", "0", ".", "0", "0", " ", "0", ".", "0", "0">>
\* ACME 1,000.00 abc 0.00 0.00
B_BadField ==
    <<"A", "C", "M", "E", " ", "1", ",", "0", "0", "0", ".", "0", "0", " ", "a", "b", "c", " ", "0", ".", "0", "0", " ", "0", ".", "0", "0">>
\* AAPL 1/2/2023 3/4/2024 10 1,500.00 1,000.00
B_SimpleRow ==
    <<"A", "A", "P", "L", " ", "1", "/", "2", "/", "2", "0", "2", "3", " ", "3", "/", "4", "/", "2", "0", "2", "4", " ", "1", "0", " ", "1", ",", "5", "0", "0", ".", "0", "0", " ", "1", ",", "0", "0", "0", ".", "0", "0">>
\* 88160R101 TESLA INC 01/15/23 02/20/2024 $2,000.00 $1,500.00
B_CusipRow ==
    <<"8", "8", "1", "6", "0", "R", "1", "0", "1", " ", "T", "E", "S", "L", "A", " ", "I", "N", "C", " ", "0", "1", "/", "1", "5", "/", "2", "3", " ", "0", "2", "/", "2", "0", "/", "2", "0", "2", "4", " ", "$", "2", ",", "0", "0", "0", ".", "0", "0", " ", "$", "1", ",", "5", "0", "0", ".", "0", "0">>
\* AAPL APPLE INC
B_Ticker ==
    <<"A", "A", "P", "L", " ", "A", "P", "P", "L", "E", " ", "I", "N", "C">>
\* 1/2/2023 3/4/2024 1,500.00 1,000.00
B_DatesAmounts ==
    <<"1", "/", "2", "/", "2", "0", "2", "3", " ", "3", "/", "4", "/", "2", "0", "2", "4", " ", "1", ",", "5", "0", "0", ".", "0", "0", " ", "1", ",", "0", "0", "0", ".", "0", "0">>
\* MSFT 5/6/2024 7/8/2024 5 300.00 400.00
B_LossRow ==
    <<"M", "S", "F", "T", " ", "5", "/", "6", "/", "2", "0", "2", "4", " ", "7", "/", "8", "/", "2", "0", "2", "4", " ", "5", " ", "3", "0", "0", ".", "0", "0", " ", "4", "0", "0", ".", "0", "0">>
\* 10 SHARES
B_Shares ==
    <<"1", "0", " ", "S", "H", "A", "R", "E", "S">>
\* 88160R101 TSLA 1/2/2023 3/4/2024 10 1,500.00 1,000.00
B_CusipQuantity ==
    <<"8", "8", "1", "6", "0", "R", "1", "0", "1", " ", "T", "S", "L", "A", " ", "1", "/", "2", "/", "2", "0", "2", "3", " ", "3", "/", "4", "/", "2", "0", "2", "4", " ", "1", "0", " ", "1", ",", "5", "0", "0", ".", "0", "0", " ", "1", ",", "0", "0", "0", ".", "0", "0">>
Headers ==
    {H_None, H_Robinhood, H_IBKR, H_Schwab, H_Fidelity, H_Etrade, H_FidelitySchwab, H_Section, H_ProceedsSection}
BodyLines ==
    {B_GrandTotal,
     B_GrandtotalNeg,
     B_TotalShort,
     B_GrandTotalCut,
     B_ThreeMoney,
     B_FourMoney,
     B_CompanyMoney,
     B_FullRow,
     B_BadField,
     B_SimpleRow,
     B_CusipRow,
     B_Ticker,
     B_DatesAmounts,
     B_LossRow,
     B_Shares,
     B_CusipQuantity}

Bodies == UNION {[1..n -> BodyLines] : n \in 0..MaxLines}

Docs == {<<h>> \o b : h \in Headers, b \in Bodies}

Programs == {"brokerageParser", "parse_pdf_fixed", "parse_pdf"}

\* What pdfplumber does with the file: it extracts the page's text, it cannot
\* open the file, or the page has no text layer (extract_text() is None).
Upstream == {"ok", "unreadable", "no_text"}

----------------------------------------------------------------------------
\* One run of one of the three scripts on one document.

VARIABLES
    prog,           \* the script that runs
    upstream,       \* what pdfplumber does with the file
    pages,          \* the lines of the page's text
    pc,             \* where the run stands
    text,           \* the lines of the extracted text
    brokerage,      \* the tag detect_brokerage returned
    pattern_idx,    \* parse_interactive_brokers_pdf: the pattern of the pass
    transactions,   \* the transactions found so far
    totals,         \* parse_interactive_brokers_pdf: the running totals
    result,         \* the parser's result, None or Some(dictionary)
    stdout,         \* what the run printed to stdout, in order
    stderr,         \* the diagnostics printed: which parser, which pattern
    exit_code,      \* -1 while running, then the exit status
    call            \* a helper function applied on its own: None in a run of
                    \* a script, otherwise [fn, args, ret]

vars == <<prog, upstream, pages, pc, text, brokerage, pattern_idx, transactions,
          totals, result, stdout, stderr, exit_code, call>>

Init ==
    /\ prog \in Programs
    /\ upstream \in Upstream
    /\ IF upstream = "ok" THEN pages \in Docs ELSE pages = <<>>
    /\ pc = "start"
    /\ text = <<>>
    /\ brokerage = ""
    /\ pattern_idx = 0
    /\ transactions = <<>>
    /\ totals = ZeroTotals
    /\ result = None
    /\ stdout = <<>>
    /\ stderr = <<>>
    /\ exit_code = -1
    /\ call = None

Log(event, n) == stderr \o <<[event |-> event, n |-> n]>>

\* print(json.dumps(obj)) and print of a line that is no JSON
Json(obj) == [json |-> TRUE, value |-> obj]

Line(s) == [json |-> FALSE, value |-> [line |-> s]]

\* ---- brokerageParser.py: main

\* text += page.extract_text() + "\n"
MainOpen ==
    /\ prog = "brokerageParser" /\ pc = "start" /\ upstream = "ok"
    /\ text' = pages \o << <<>> >>
    /\ pc' = "identify"
    /\ UNCHANGED <<call, prog, upstream, pages, brokerage, pattern_idx, transactions,
                   totals, result, stdout, stderr, exit_code, call>>

\* pdfplumber.open raises, or None + "\n" raises TypeError: the except branch
\* prints the error object and exits with status 1.
MainOpenFails ==
    /\ prog = "brokerageParser" /\ pc = "start" /\ upstream # "ok"
    /\ stdout' = Append(stdout, Json(ErrorJson))
    /\ exit_code' = 1
    /\ pc' = "done"
    /\ UNCHANGED <<call, prog, upstream, pages, text, brokerage, pattern_idx,
                   transactions, totals, result, stderr>>

MainIdentify ==
    /\ prog = "brokerageParser" /\ pc = "identify"
    /\ brokerage' = detect_brokerage(text)
    /\ pc' = "dispatch"
    /\ UNCHANGED <<call, prog, upstream, pages, text, pattern_idx, transactions,
                   totals, result, stdout, stderr, exit_code, call>>

MainDispatchRobinhood ==
    /\ prog = "brokerageParser" /\ pc = "dispatch" /\ brokerage = "robinhood"
    /\ result' = parse_robinhood_pdf(text)
    /\ stderr' = Log("parse_robinhood_pdf", 0)
    /\ pc' = "output"
    /\ UNCHANGED <<call, prog, upstream, pages, text, brokerage, pattern_idx,
                   transactions, totals, stdout, exit_code>>

\* parse_interactive_brokers_pdf up to its loop over the patterns
MainDispatchIBKR ==
    /\ prog = "brokerageParser" /\ pc = "dispatch" /\ brokerage = "interactive_brokers"
    /\ transactions' = <<>>
    /\ totals' = ZeroTotals
    /\ pattern_idx' = 0
    /\ stderr' = Log("parse_interactive_brokers_pdf", 0)
    /\ pc' = "ibkr"
    /\ UNCHANGED <<call, prog, upstream, pages, text, brokerage, result, stdout, exit_code>>

\* The end of a pass that left the transactions and totals acc: the break
\* when transactions were found, otherwise the next pattern.
IBKRPassEnd(acc) ==
    /\ transactions' = acc.transactions
    /\ totals' = acc.totals
    /\ IF IBKRBreak(acc.transactions)
       THEN pc' = "ibkr_return" /\ pattern_idx' = pattern_idx
       ELSE /\ pattern_idx' = pattern_idx + 1
            /\ pc' = IF pattern_idx + 1 < NumPatterns THEN "ibkr" ELSE "ibkr_return"

\* One pass of the loop over the patterns: every line under
\* patterns[pattern_idx].
IBKRTryPattern ==
    /\ prog = "brokerageParser" /\ pc = "ibkr" /\ pattern_idx < NumPatterns
    /\ stderr' = Log("pattern", pattern_idx + 1)
    /\ IBKRPassEnd(IBKRScan(text, 1, pattern_idx,
                            [transactions |-> transactions, totals |-> totals]))
    /\ UNCHANGED <<call, prog, upstream, pages, text, brokerage, result, stdout, exit_code>>

IBKRReturn ==
    /\ prog = "brokerageParser" /\ pc = "ibkr_return"
    /\ result' = IBKRResult(transactions, totals)
    /\ pc' = "output"
    /\ UNCHANGED <<call, prog, upstream, pages, text, brokerage, pattern_idx,
                   transactions, totals, stdout, stderr, exit_code>>

MainDispatchSchwabTD ==
    /\ prog = "brokerageParser" /\ pc = "dispatch" /\ brokerage = "schwab_td"
    /\ result' = parse_schwab_td_pdf(text)
    /\ stderr' = Log("parse_schwab_td_pdf", 0)
    /\ pc' = "output"
    /\ UNCHANGED <<call, prog, upstream, pages, text, brokerage, pattern_idx,
                   transactions, totals, stdout, exit_code>>

MainDispatchFidelity ==
    /\ prog = "brokerageParser" /\ pc = "dispatch" /\ brokerage = "fidelity"
    /\ result' = parse_fidelity_pdf(text)
    /\ stderr' = Log("parse_fidelity_pdf", 0)
    /\ pc' = "output"
    /\ UNCHANGED <<call, prog, upstream, pages, text, brokerage, pattern_idx,
                   transactions, totals, stdout, exit_code>>

\* The tags main has a parser for.
Dispatched == {"robinhood", "interactive_brokers", "schwab_td", "fidelity"}

\* The else branch: sys.exit(1).  SystemExit is no Exception, so the except
\* branch does not run and nothing is printed to stdout.
MainDispatchUnsupported ==
    /\ prog = "brokerageParser" /\ pc = "dispatch" /\ brokerage \notin Dispatched
    /\ stderr' = Log("unsupported", 0)
    /\ exit_code' = 1
    /\ pc' = "done"
    /\ UNCHANGED <<call, prog, upstream, pages, text, brokerage, pattern_idx,
                   transactions, totals, result, stdout>>

\* if result: the metadata is added and the dictionary printed
MainPrintResult ==
    /\ prog = "brokerageParser" /\ pc = "output" /\ result # None
    /\ stdout' = Append(stdout, Json(WithMetadata(result[1], brokerage)))
    /\ exit_code' = 0
    /\ pc' = "done"
    /\ UNCHANGED <<call, prog, upstream, pages, text, brokerage, pattern_idx,
                   transactions, totals, result, stderr>>

\* else: the error object is printed
MainPrintFailure ==
    /\ prog = "brokerageParser" /\ pc = "output" /\ result = None
    /\ stdout' = Append(stdout, Json(ErrorJson))
    /\ exit_code' = 0
    /\ pc' = "done"
    /\ UNCHANGED <<call, prog, upstream, pages, text, brokerage, pattern_idx,
                   transactions, totals, result, stderr>>

\* ---- parse_pdf_fixed.py: main and parse_robinhood_pdf

\* all_text += page.extract_text() or ""
FixedOpen ==
    /\ prog = "parse_pdf_fixed" /\ pc = "start" /\ upstream # "unreadable"
    /\ text' = IF upstream = "ok" THEN pages ELSE << <<>> >>
    /\ result' = Some(FixedInitialResult)
    /\ pc' = "scan"
    /\ UNCHANGED <<call, prog, upstream, pages, brokerage, pattern_idx, transactions,
                   totals, stdout, stderr, exit_code>>

\* pdfplumber.open raises: the except branch records the error
FixedOpenFails ==
    /\ prog = "parse_pdf_fixed" /\ pc = "start" /\ upstream = "unreadable"
    /\ result' = Some(WithError(FixedInitialResult, "cannot open the file"))
    /\ pc' = "print"
    /\ UNCHANGED <<call, prog, upstream, pages, text, brokerage, pattern_idx,
                   transactions, totals, stdout, stderr, exit_code>>

FixedScan ==
    /\ prog = "parse_pdf_fixed" /\ pc = "scan"
    /\ transactions' = extract_transactions_from_text(text)
    /\ pc' = "assemble"
    /\ UNCHANGED <<call, prog, upstream, pages, text, brokerage, pattern_idx, totals,
                   result, stdout, stderr, exit_code>>

FixedAssemble ==
    /\ prog = "parse_pdf_fixed" /\ pc = "assemble"
    /\ result' = Some(FixedResult(transactions))
    /\ pc' = "print"
    /\ UNCHANGED <<call, prog, upstream, pages, text, brokerage, pattern_idx,
                   transactions, totals, stdout, stderr, exit_code>>

\* ---- parse_pdf.py: main and parse_robinhood_pdf

\* if text: all_text += text + "\n".  The account number and taxpayer name
\* searches read labels none of the input lines holds and leave both fields as
\* initialised.
PdfOpen ==
    /\ prog = "parse_pdf" /\ pc = "start" /\ upstream # "unreadable"
    /\ text' = IF upstream = "ok" /\ pages # << <<>> >> THEN pages \o << <<>> >>
               ELSE << <<>> >>
    /\ result' = Some(PdfInitialResult)
    /\ pc' = "scan"
    /\ UNCHANGED <<call, prog, upstream, pages, brokerage, pattern_idx, transactions,
                   totals, stdout, stderr, exit_code>>

\* pdfplumber.open raises: the except branch prints the error to stdout and
\* records it
PdfOpenFails ==
    /\ prog = "parse_pdf" /\ pc = "start" /\ upstream = "unreadable"
    /\ result' = Some(PdfFailure(PdfInitialResult, "cannot open the file"))
    /\ stdout' = Append(stdout, Line("PDF parsing error"))
    /\ pc' = "print"
    /\ UNCHANGED <<call, prog, upstream, pages, text, brokerage, pattern_idx,
                   transactions, totals, stderr, exit_code>>

\* extract_transactions_from_text raises NameError with the rows of its line
\* scan, or the samples, in its local transactions; result["transactions"] is
\* assigned after the call and stays empty.  The except branch prints the
\* error to stdout and records it.
PdfScan ==
    /\ prog = "parse_pdf" /\ pc = "scan"
    /\ PdfExtractRaises(text)
    /\ transactions' = PdfTransactions(text)
    /\ result' = Some(PdfFailure(result[1], "name 'stock_patterns' is not defined"))
    /\ stdout' = Append(stdout, Line("PDF parsing error"))
    /\ pc' = "print"
    /\ UNCHANGED <<call, prog, upstream, pages, text, brokerage, pattern_idx,
                   totals, stderr, exit_code>>

\* main of parse_pdf_fixed.py and of parse_pdf.py: print(json.dumps(result))
ScriptPrint ==
    /\ prog \in {"parse_pdf_fixed", "parse_pdf"} /\ pc = "print"
    /\ stdout' = Append(stdout, Json(result[1]))
    /\ exit_code' = 0
    /\ pc' = "done"
    /\ UNCHANGED <<call, prog, upstream, pages, text, brokerage, pattern_idx,
                   transactions, totals, result, stderr>>

Next ==
    \/ MainOpen
    \/ MainOpenFails
    \/ MainIdentify
    \/ MainDispatchRobinhood
    \/ MainDispatchIBKR
    \/ IBKRTryPattern
    \/ IBKRReturn
    \/ MainDispatchSchwabTD
    \/ MainDispatchFidelity
    \/ MainDispatchUnsupported
    \/ MainPrintResult
    \/ MainPrintFailure
    \/ FixedOpen
    \/ FixedOpenFails
    \/ FixedScan
    \/ FixedAssemble
    \/ PdfOpen
    \/ PdfOpenFails
    \/ PdfScan
    \/ ScriptPrint

Spec == Init /\ [][Next]_vars

----------------------------------------------------------------------------
\* The helper functions applied on their own, each to the strings of a small
\* alphabet and to the strings the specification names.

\* The longest string of CurrencyChars handed to parse_currency.
MaxChars == 4

\* The longest string of DateChars handed to standardize_date.
MaxDateChars == 6

\* The most lines of a text handed to detect_brokerage.
MaxMentions == 2

Strings(C, n) == UNION {[1..k -> C] : k \in 0..n}

CurrencyChars == {"1", "0", ".", ",", "-", "(", ")", "a", " "}

CurrencyStrings ==
    Strings(CurrencyChars, MaxChars)
    \cup {<<"1", ",", "2", "3", "4", ".", "5", "6">>, <<"(", "1", ",", "2", "3", "4", ".", "5", "6", ")">>, <<"a", "b", "c">>, <<"$", "1", ",", "2", "3", "4", ".", "5", "6">>, <<"-", "1", ",", "2", "3", "4", ".", "5", "6">>,
          <<"(", "1", ",", "2", "3", "4", ".", "5", "6">>, <<"$", " ", "(", "1", "2", ".", "5", "0", ")">>, <<"1", ",", "2", "3", "4", ".">>}

DateChars == {"1", "2", "/", "x"}

\* Dates of the calendar and strings close to them, padded and not.
CalendarStrings ==
    {m \o <<"/">> \o d \o <<"/">> \o y :
        m \in {<<"1">>, <<"0", "1">>, <<"2">>, <<"1", "2">>, <<"1", "3">>},
        d \in {<<"1">>, <<"0", "1">>, <<"2">>, <<"0", "2">>, <<"2", "9">>, <<"3", "1">>},
        y \in {<<"2", "0", "2", "3">>, <<"2", "0", "2", "4">>, <<"2", "0", "2", "5">>, <<"2", "4">>}}
    \cup {<<"V", "a", "r", "i", "o", "u", "s">>, <<>>, <<"1", "2", "/", "3", "1", "/", "2", "0", "2", "3">>, <<"0", "1", "/", "0", "1", "/", "2", "0", "2", "3", " ">>}

DateStrings ==
    Strings(DateChars, MaxDateChars)
    \cup CalendarStrings
    \cup {<<"3", "/", "1", "/", "2", "4">>, <<"0", "3", "/", "0", "1", "/", "2", "0", "2", "4">>, <<"2", "0", "2", "4", "-", "0", "3", "-", "0", "1">>}

\* What a document may say of a brokerage, in any case.
Mentions ==
    {<<"R", "o", "b", "i", "n", "h", "o", "o", "d">>, <<"I", "B", "K", "R">>, <<"I", "n", "t", "e", "r", "a", "c", "t", "i", "v", "e", " ", "B", "r", "o", "k", "e", "r", "s">>, <<"T", "D", " ", "A", "m", "e", "r", "i", "t", "r", "a", "d", "e">>,
     <<"S", "C", "H", "W", "A", "B">>, <<"f", "i", "d", "e", "l", "i", "t", "y">>, <<"E", "*", "T", "r", "a", "d", "e">>, <<"e", "t", "r", "a", "d", "e">>, <<"V", "a", "n", "g", "u", "a", "r", "d">>,
     <<"I", "n", "t", "e", "r", "a", "c", "t", "i", "v", "e">>}

\* Texts of up to MaxMentions lines, and the same mentions on one line.
BrokerageTexts ==
    LET T == UNION {[1..n -> Mentions] : n \in 1..MaxMentions}
    IN  T \cup {<<join(t)>> : t \in T} \cup {<< <<>> >>}

\* The most lines of a text handed to parse_transaction_lines.
MaxStitchLines == 6

\* Lines with a date and an amount each, and a line with neither: "0.00" is
\* not positive and "5" has no '.' or ','.
StitchLines ==
    {<<"A", "A", "P", "L", " ", "1", "/", "2", "/", "2", "0", "2", "3", " ", "3", "0", "0", ".", "0", "0">>, <<"3", "/", "4", "/", "2", "0", "2", "4", " ", "$", "1", ",", "0", "0", "0", ".", "0", "0">>, <<"0", ".", "0", "0", " ", "5", " ", "S", "H", "A", "R", "E", "S">>}

StitchTexts == UNION {[1..n -> StitchLines] : n \in 1..MaxStitchLines}

NewCall(fn, args) == [fn |-> fn, args |-> args, ret |-> None]

\* The calls: each function on each of its inputs.
IsCall ==
    \/ \E t \in BrokerageTexts : call = NewCall("detect_brokerage", <<t>>)
    \/ \E s \in CurrencyStrings :
          call = NewCall("brokerageParser.parse_currency", <<s>>)
    \/ \E s \in CurrencyStrings :
          call = NewCall("parse_pdf_fixed.parse_currency", <<s>>)
    \/ \E s \in DateStrings : call = NewCall("standardize_date", <<s>>)
    \/ \E a \in CalendarStrings, s \in CalendarStrings :
          call = NewCall("is_long_term_investment", <<a, s>>)
    \/ \E lines \in StitchTexts :
          \E start_idx \in 0..(Len(lines) - 1) :
              call = NewCall("parse_transaction_lines",
                             <<lines, start_idx, <<>>, <<"A", "A", "P", "L">>>>)

\* No script runs: one function is called.
FunctionInit ==
    /\ IsCall
    /\ prog = "none"
    /\ upstream = "ok"
    /\ pages = <<>>
    /\ pc = "call"
    /\ text = <<>>
    /\ brokerage = ""
    /\ pattern_idx = 0
    /\ transactions = <<>>
    /\ totals = ZeroTotals
    /\ result = None
    /\ stdout = <<>>
    /\ stderr = <<>>
    /\ exit_code = -1

\* The call returns value.
Return(fn, value) ==
    /\ pc = "call" /\ call.fn = fn
    /\ call' = [call EXCEPT !.ret = Some(value)]
    /\ pc' = "returned"
    /\ UNCHANGED <<prog, upstream, pages, text, brokerage, pattern_idx,
                   transactions, totals, result, stdout, stderr, exit_code>>

ApplyDetectBrokerage ==
    Return("detect_brokerage", detect_brokerage(call.args[1]))

ApplyParseCurrency ==
    Return("brokerageParser.parse_currency", parse_currency(call.args[1]))

ApplyParseCurrencyFixed ==
    Return("parse_pdf_fixed.parse_currency", parse_currency_fixed(call.args[1]))

ApplyStandardizeDate ==
    Return("standardize_date", standardize_date(call.args[1]))

ApplyIsLongTerm ==
    Return("is_long_term_investment",
           is_long_term_investment(call.args[1], call.args[2]))

\* start_idx counts the lines from 0.
ApplyParseTransactionLines ==
    Return("parse_transaction_lines",
           parse_transaction_lines(call.args[1], call.args[2] + 1,
                                   call.args[3], call.args[4]))

FunctionNext ==
    \/ ApplyDetectBrokerage
    \/ ApplyParseCurrency
    \/ ApplyParseCurrencyFixed
    \/ ApplyStandardizeDate
    \/ ApplyIsLongTerm
    \/ ApplyParseTransactionLines

FunctionSpec == FunctionInit /\ [][FunctionNext]_vars
----------------------------------------------------------------------------
\* Properties of the runs.

\* The JSON objects the run printed, in order.
Printed == SelectSeq(stdout, LAMBDA o : o.json)

\* The run is over.
Done == pc = "done"

\* The line scan of parse_pdf_fixed.py, or the parser main dispatched to,
\* ended with no transaction.
NothingExtracted ==
    \/ prog = "parse_pdf_fixed" /\ upstream # "unreadable" /\ transactions = <<>>
    \/ prog = "brokerageParser" /\ brokerage \in Dispatched /\ result = None

\* The object reports no success and no transaction.
IsFailure(r) ==
    /\ "success" \in DOMAIN r => ~r.success
    /\ "transactions" \in DOMAIN r => r.transactions = <<>>

\* C1: when the extraction found no transaction, the run ends in a failure
\* result with an empty transactions list, never in sample transactions.
\* parse_pdf_fixed.py reports its three hardcoded transactions with success.
C1_NoPlaceholderData ==
    (Done /\ NothingExtracted) =>
        \A k \in DOMAIN Printed : IsFailure(Printed[k].value)

\* C2: in every printed result, success = false implies empty transactions
\* and an error, and non-empty transactions imply success = true.
\* brokerageParser.py prints its transactions in an object without success.
C2_SuccessAndTransactions ==
    \A k \in DOMAIN Printed :
        LET r == Printed[k].value
        IN  /\ ("success" \in DOMAIN r /\ ~r.success) =>
                 /\ "transactions" \in DOMAIN r /\ r.transactions = <<>>
                 /\ "error" \in DOMAIN r
            /\ ("transactions" \in DOMAIN r /\ r.transactions # <<>>) =>
                 ("success" \in DOMAIN r /\ r.success)

\* C3: every run ends having printed exactly one result, and that result
\* has a success flag.  brokerageParser.py exits with status 1 and prints
\* nothing for a brokerage it has no parser for.
C3_OneResultWithSuccessFlag ==
    Done =>
        /\ Len(stdout) = 1
        /\ stdout[1].json
        /\ "success" \in DOMAIN stdout[1].value

\* A parser was called.
ExtractorInvoked ==
    \E k \in DOMAIN stderr :
        stderr[k].event \in {"parse_robinhood_pdf", "parse_interactive_brokers_pdf",
                             "parse_schwab_td_pdf", "parse_fidelity_pdf"}

\* C4: for the tag unknown or a tag without a parser (etrade) no parser is
\* called and the result reports the tag with success = false.  No result is
\* printed on this path.
C4_UnsupportedReported ==
    (Done /\ prog = "brokerageParser" /\ upstream = "ok" /\ brokerage \notin Dispatched) =>
        /\ ~ExtractorInvoked
        /\ \E k \in DOMAIN Printed :
              LET r == Printed[k].value
              IN  /\ "brokerage" \in DOMAIN r /\ r.brokerage = brokerage
                  /\ "success" \in DOMAIN r /\ ~r.success

\* The totals of a result of brokerageParser.py are the sums over its
\* transactions.
TotalsAreSums(r) ==
    /\ r.totalProceeds = Sum(r.transactions, "proceeds")
    /\ r.totalCostBasis = Sum(r.transactions, "costBasis")
    /\ r.totalNetGainLoss = Sum(r.transactions, "netGainLoss")
    /\ r.totalWashSaleLoss = Sum(r.transactions, "washSaleLoss")
    /\ r.shortTermProceeds = Sum(SelectSeq(r.transactions, IsShort), "proceeds")
    /\ r.shortTermCostBasis = Sum(SelectSeq(r.transactions, IsShort), "costBasis")
    /\ r.shortTermNetGainLoss = Sum(SelectSeq(r.transactions, IsShort), "netGainLoss")
    /\ r.longTermProceeds = Sum(SelectSeq(r.transactions, IsLong), "proceeds")
    /\ r.longTermCostBasis = Sum(SelectSeq(r.transactions, IsLong), "costBasis")
    /\ r.longTermNetGainLoss = Sum(SelectSeq(r.transactions, IsLong), "netGainLoss")
    /\ r.shortTermProceeds + r.longTermProceeds = r.totalProceeds
    /\ r.shortTermCostBasis + r.longTermCostBasis = r.totalCostBasis
    /\ r.shortTermNetGainLoss + r.longTermNetGainLoss = r.totalNetGainLoss

\* The summary of a result of parse_pdf_fixed.py or parse_pdf.py is the sums
\* over its transactions.
SummaryIsSums(r) ==
    /\ r.summary.totalProceeds = Sum(r.transactions, "proceeds")
    /\ r.summary.totalCostBasis = Sum(r.transactions, "costBasis")
    /\ r.summary.totalNetGainLoss = Sum(r.transactions, "netGainLoss")
    /\ r.summary.shortTermGainLoss = Sum(SelectSeq(r.transactions, IsShort), "netGainLoss")
    /\ r.summary.longTermGainLoss = Sum(SelectSeq(r.transactions, IsLong), "netGainLoss")
    /\ r.summary.shortTermGainLoss + r.summary.longTermGainLoss
         = r.summary.totalNetGainLoss

\* C5: in every result with transactions each total is the sum of the field
\* over the transactions, the short-term and long-term totals over those with
\* isLongTerm false and true.  Amounts are exact hundredths here.
C5_TotalsAreSums ==
    \A k \in DOMAIN Printed :
        LET r == Printed[k].value
        IN  /\ "totalProceeds" \in DOMAIN r => TotalsAreSums(r)
            /\ "summary" \in DOMAIN r => SummaryIsSums(r)

\* A run of brokerageParser.py printed two rows whose wash sales count.
C5_Witness ==
    /\ Done /\ prog = "brokerageParser"
    /\ Len(Printed) = 1
    /\ "transactions" \in DOMAIN Printed[1].value
    /\ Len(Printed[1].value.transactions) = 2
    /\ Printed[1].value.totalWashSaleLoss > 0

\* The summary patterns that match the text.
SummaryMatches == {n \in DOMAIN summary_labels : SummarySearch(text, n).ok}

\* The one transaction of a summary row with these groups.
IsSummaryRow(t, groups) ==
    /\ t.quantity = Units(1)
    /\ t.dateAcquired = <<"V", "a", "r", "i", "o", "u", "s">> /\ t.dateSold = <<"V", "a", "r", "i", "o", "u", "s">>
    /\ t.proceeds = parse_currency(groups[1])
    /\ t.costBasis = parse_currency(groups[2])
    /\ t.washSaleLoss = parse_currency(groups[4])
    /\ t.netGainLoss = parse_currency(groups[5])

\* C6: parse_robinhood_pdf of brokerageParser.py returns, for the first
\* pattern of summary_patterns that matches, one transaction with quantity 1,
\* both dates "Various" and fields 1, 2, 4 and 5 of the row as proceeds, cost
\* basis, wash sale loss and net gain; nothing when no pattern matches.  The
\* row "Grand total 1,000.00 800.00 0.00 50.00 250.00" gives 1000, 800, 50
\* and 250.
C6_SummaryRow ==
    (prog = "brokerageParser" /\ pc = "output" /\ brokerage = "robinhood") =>
        /\ SummaryMatches = {} => result = None
        /\ SummaryMatches # {} =>
             /\ result # None
             /\ Len(result[1].transactions) = 1
             /\ IsSummaryRow(result[1].transactions[1],
                             SummarySearch(text, Min(SummaryMatches)).groups)
        /\ pages = <<H_Robinhood, B_GrandTotal>> =>
             /\ result # None
             /\ result[1].transactions[1].proceeds = Units(1000)
             /\ result[1].transactions[1].costBasis = Units(800)
             /\ result[1].transactions[1].washSaleLoss = Units(50)
             /\ result[1].transactions[1].netGainLoss = Units(250)

\* A summary row whose net gain is not proceeds less cost basis, with a row
\* of a later pattern before it in the text.
C6_Witness ==
    /\ prog = "brokerageParser" /\ pc = "output" /\ brokerage = "robinhood"
    /\ result # None
    /\ result[1].transactions[1].netGainLoss
         # result[1].transactions[1].proceeds - result[1].transactions[1].costBasis
    /\ Cardinality(SummaryMatches) >= 2

\* C7: for a summary row the printed totals are the figures of the row,
\* fields 1, 2, 4 and 5, as the parser returned them; main changes none.
C7_TotalsVerbatim ==
    (Done /\ prog = "brokerageParser" /\ brokerage = "robinhood" /\ result # None) =>
        /\ Len(Printed) = 1
        /\ LET r == Printed[1].value
               groups == SummarySearch(text, Min(SummaryMatches)).groups
           IN  /\ r.totalProceeds = parse_currency(groups[1])
               /\ r.totalCostBasis = parse_currency(groups[2])
               /\ r.totalWashSaleLoss = parse_currency(groups[4])
               /\ r.totalNetGainLoss = parse_currency(groups[5])
               /\ r.totalProceeds = result[1].totalProceeds
               /\ r.totalCostBasis = result[1].totalCostBasis
               /\ r.totalWashSaleLoss = result[1].totalWashSaleLoss
               /\ r.totalNetGainLoss = result[1].totalNetGainLoss
               /\ r.transactions = result[1].transactions

\* Printed totals of a summary row whose net total is not the difference of
\* the other two.
C7_Witness ==
    /\ Done /\ prog = "brokerageParser" /\ brokerage = "robinhood"
    /\ Len(Printed) = 1
    /\ "totalNetGainLoss" \in DOMAIN Printed[1].value
    /\ Printed[1].value.totalNetGainLoss
         # Printed[1].value.totalProceeds - Printed[1].value.totalCostBasis

\* The lines of the text that the full-row pattern, patterns[2], matches.
FullRows == {i \in DOMAIN text : IBKRSearch(NumPatterns - 1, strip(text[i])).ok}

\* The transaction has the CUSIP, quantity and dates of the full row's groups.
CarriesRow(t, groups) ==
    /\ t.cusip = groups[2]
    /\ t.quantity = Units(DigitsVal(groups[4]))
    /\ t.dateSold = groups[7]
    /\ t.dateAcquired = groups[8]

\* The patterns in the order of their passes.
PatternsTried ==
    LET passes == SelectSeq(stderr, LAMBDA e : e.event = "pattern")
    IN  [k \in DOMAIN passes |-> passes[k].n]

\* C8: the full-row pattern is tried first, and a text with full rows gives
\* transactions with the rows' own CUSIP, quantity and dates.  The code tries
\* the bare four amounts first, which match every full row.
C8_MostSpecificFirst ==
    (prog = "brokerageParser" /\ pc = "ibkr_return") =>
        /\ PatternsTried[1] = NumPatterns
        /\ FullRows # {} =>
             \A k \in DOMAIN transactions :
                 \E i \in FullRows :
                     CarriesRow(transactions[k],
                                IBKRSearch(NumPatterns - 1, strip(text[i])).groups)

\* The transactions one pattern alone yields over the whole text.
YieldOf(p) ==
    IBKRScan(text, 1, p, [transactions |-> <<>>, totals |-> ZeroTotals]).transactions

\* The patterns that yield a row.
Yielding == {p \in 0..(NumPatterns - 1) : YieldOf(p) # <<>>}

\* C9: the transactions parse_interactive_brokers_pdf returns are those of
\* one pattern, the first in the order of the passes that yields a row; the
\* passes end with it.
C9_SinglePattern ==
    (prog = "brokerageParser" /\ pc = "ibkr_return") =>
        /\ Yielding = {} => transactions = <<>>
        /\ Yielding # {} =>
             /\ transactions = YieldOf(Min(Yielding))
             /\ PatternsTried[Len(PatternsTried)] = Min(Yielding) + 1

\* A text in which more than one pattern has rows.
C9_Witness ==
    /\ prog = "brokerageParser" /\ pc = "ibkr_return"
    /\ transactions # <<>>
    /\ Cardinality(Yielding) >= 2

NetIsDifference(t) == t.netGainLoss = t.proceeds - t.costBasis

\* C10: every transaction of a row-based parser, parse_interactive_brokers_pdf
\* and the scan of parse_pdf_fixed.py, has netGainLoss = proceeds - costBasis,
\* in the parser and in the printed result.
C10_RowNetGain ==
    /\ \A k \in DOMAIN transactions : NetIsDifference(transactions[k])
    /\ (prog = "parse_pdf_fixed" \/ brokerage = "interactive_brokers") =>
          \A j \in DOMAIN Printed :
              "transactions" \in DOMAIN Printed[j].value =>
                  \A k \in DOMAIN Printed[j].value.transactions :
                      NetIsDifference(Printed[j].value.transactions[k])

\* Printed rows of parse_interactive_brokers_pdf, one with a wash sale.
C10_Witness ==
    /\ Done /\ prog = "brokerageParser" /\ brokerage = "interactive_brokers"
    /\ Len(Printed) = 1
    /\ "transactions" \in DOMAIN Printed[1].value
    /\ \E k \in DOMAIN Printed[1].value.transactions :
          Printed[1].value.transactions[k].washSaleLoss > 0


\* The tags whose parser has no row pattern.
NoRowPatterns == {"schwab_td", "fidelity"}

\* C12: for a text identified as schwab_td or fidelity the parser returns no
\* transactions whatever the text holds, and the run ends printing one
\* object that reports the failure and has no transactions.
C12_NoRowsWithoutPatterns ==
    (prog = "brokerageParser" /\ brokerage \in NoRowPatterns) =>
        /\ pc \in {"output", "done"} => (result = None /\ transactions = <<>>)
        /\ Done =>
             /\ Len(Printed) = 1
             /\ "error" \in DOMAIN Printed[1].value
             /\ "transactions" \notin DOMAIN Printed[1].value

\* A Schwab document with a summary row and an itemized row that the other
\* parsers read.
C12_Witness ==
    /\ Done /\ prog = "brokerageParser" /\ brokerage = "schwab_td"
    /\ parse_robinhood_pdf(text) # None
    /\ \E i \in DOMAIN text : IBKRSearch(NumPatterns - 1, strip(text[i])).ok
    /\ Len(Printed) = 1

\* A row with a field that is no amount: of the last four words of the line
\* three are amounts and one is no number.
IsBadRow(line) ==
    LET ws == words(line)
    IN  /\ Len(ws) >= 4
        /\ Cardinality({j \in (Len(ws) - 3)..Len(ws) : MoneyRe(ws[j])}) = 3
        /\ \E j \in (Len(ws) - 3)..Len(ws) : ~NumberRe(ws[j])

\* The text without its bad rows.
WithoutBadRows(lines) == SelectSeq(lines, LAMBDA l : ~IsBadRow(l))

NoRows == [transactions |-> <<>>, totals |-> ZeroTotals]

\* The rows and totals of a pass when it has rows, otherwise those of the
\* passes after it.
PassOr(acc, otherwise) == IF acc.transactions # <<>> THEN acc ELSE otherwise

\* What the passes of parse_interactive_brokers_pdf from pattern p on leave
\* for the lines.
RECURSIVE IBKRRows(_, _)
IBKRRows(lines, p) ==
    IF p >= NumPatterns THEN NoRows
    ELSE PassOr(IBKRScan(lines, 1, p, NoRows), IBKRRows(lines, p + 1))

\* C17: a row with a field that does not parse adds no transaction and
\* nothing to the totals, and the transactions and totals of the text are
\* those of the text without the row.  In a transaction section the line scan
\* of parse_pdf_fixed.py makes of the bad row "ACME 1,000.00 abc 0.00 0.00" a
\* transaction with the dates and amounts of the row after it.
C17_BadRowDiscardedAlone ==
    /\ (prog = "brokerageParser" /\ pc = "ibkr_return") =>
          /\ transactions = IBKRRows(WithoutBadRows(text), 0).transactions
          /\ totals = IBKRRows(WithoutBadRows(text), 0).totals
    /\ (prog = "parse_pdf_fixed" /\ pc = "assemble") =>
          transactions = extract_transactions_from_text(WithoutBadRows(text))
----------------------------------------------------------------------------
\* Properties of the helper functions.

\* The call of fn has returned.
Returned(fn) == pc = "returned" /\ call.fn = fn

\* The identification rules in their order: a tag and its signatures.
Rules ==
    << [tag |-> "robinhood", signatures |-> {<<"r", "o", "b", "i", "n", "h", "o", "o", "d">>}],
       [tag |-> "interactive_brokers",
        signatures |-> {<<"i", "n", "t", "e", "r", "a", "c", "t", "i", "v", "e", " ", "b", "r", "o", "k", "e", "r", "s">>, <<"i", "b", "k", "r">>}],
       [tag |-> "schwab_td", signatures |-> {<<"t", "d", " ", "a", "m", "e", "r", "i", "t", "r", "a", "d", "e">>, <<"s", "c", "h", "w", "a", "b">>}],
       [tag |-> "fidelity", signatures |-> {<<"f", "i", "d", "e", "l", "i", "t", "y">>}],
       [tag |-> "etrade", signatures |-> {<<"e", "*", "t", "r", "a", "d", "e">>, <<"e", "t", "r", "a", "d", "e">>}] >>

\* The rules of which a signature occurs in the text, in whatever case.
RulesMatching(t) ==
    {n \in DOMAIN Rules :
        \E sig \in Rules[n].signatures, i \in DOMAIN t : Contains(lower(t[i]), sig)}

\* C11: detect_brokerage returns the tag of the earliest rule, in the order
\* robinhood, interactive brokers / ibkr, td ameritrade / schwab, fidelity,
\* e*trade / etrade, of which a signature occurs in the text in any case and
\* at any place, and "unknown" when none occurs; "fidelity" before "SCHWAB"
\* is schwab_td.
C11_FirstRuleWins ==
    Returned("detect_brokerage") =>
        /\ RulesMatching(call.args[1]) = {} => call.ret = Some("unknown")
        /\ RulesMatching(call.args[1]) # {} =>
             call.ret = Some(Rules[Min(RulesMatching(call.args[1]))].tag)
        /\ call.args[1] \in {<<<<"f", "i", "d", "e", "l", "i", "t", "y">>, <<"S", "C", "H", "W", "A", "B">>>>, <<<<"f", "i", "d", "e", "l", "i", "t", "y", " ", "S", "C", "H", "W", "A", "B">>>>} =>
             call.ret = Some("schwab_td")

\* A text that names Fidelity in lower case before Schwab in upper case.
C11_Witness ==
    /\ Returned("detect_brokerage")
    /\ call.args[1] = <<<<"f", "i", "d", "e", "l", "i", "t", "y">>, <<"S", "C", "H", "W", "A", "B">>>>
    /\ call.ret = Some("schwab_td")

\* What is left of a currency string: its digits, '.', ',' and '-', less one
\* final '.'.
Residue(s) ==
    LET kept == SelectSeq(s, LAMBDA c : c \in Digit \cup {".", ",", "-"})
    IN  IF kept # <<>> /\ Last(kept) = "." THEN Front(kept) ELSE kept

\* The value the currency normalizer is to give: that of the residue without
\* its commas, negative when the string holds both parentheses, and 0 for the
\* empty string and for a residue that is no number.
Normalized(s) ==
    LET v == float(SelectSeq(Residue(s), LAMBDA c : c # ","))
    IN  IF s = <<>> \/ ~v.ok THEN 0
        ELSE IF "(" \in Range(s) /\ ")" \in Range(s) THEN -Abs(v.v)
        ELSE v.v

\* The parse_currency named fn returned the value described.
CurrencyAsDescribed(fn) ==
    Returned(fn) =>
        /\ call.ret = Some(Normalized(call.args[1]))
        /\ call.args[1] = <<"1", ",", "2", "3", "4", ".", "5", "6">> => call.ret = Some(123456)
        /\ call.args[1] = <<"(", "1", ",", "2", "3", "4", ".", "5", "6", ")">> => call.ret = Some(-123456)
        /\ call.args[1] \in {<<>>, <<"a", "b", "c">>} => call.ret = Some(0)

\* C13: each parse_currency returns 0 for the empty string and for a residue
\* that is no number, and otherwise the value of the residue, negative when
\* the string holds '(' and ')': "1,234.56" is 1234.56 and "(1,234.56)" is
\* -1234.56.  parse_currency of parse_pdf_fixed.py drops the parentheses and
\* the '-' and returns 1234.56 for "(1,234.56)".
C13_CurrencyNormalizer ==
    /\ CurrencyAsDescribed("brokerageParser.parse_currency")
    /\ CurrencyAsDescribed("parse_pdf_fixed.parse_currency")

\* The places of the '/' in a string.
Slashes(s) == {i \in DOMAIN s : s[i] = "/"}

\* A part of a date with zeros before it up to two characters.
PaddedPart(p) ==
    IF Len(p) = 0 THEN <<"0", "0">> ELSE IF Len(p) = 1 THEN <<"0">> \o p ELSE p

\* The date standardize_date is to give for a string with two '/', at a and b.
ThreeParts(s, a, b) ==
    PaddedPart(SubSeq(s, 1, a - 1)) \o <<"/">>
    \o PaddedPart(SubSeq(s, a + 1, b - 1)) \o <<"/">>
    \o (IF Len(s) - b = 2 THEN <<"2", "0">> ELSE <<>>) \o From(s, b + 1)

\* MM/DD/YYYY
Canonical(s) ==
    /\ Len(s) = 10
    /\ s[3] = "/" /\ s[6] = "/"
    /\ \A i \in (1..10) \ {3, 6} : s[i] \in Digit

\* C14: standardize_date returns, for a string that '/' splits in exactly
\* three parts, the month and day padded with zeros to two digits and the
\* year, with "20" before a year of two digits ("3/1/24" gives
\* "03/01/2024"); every other string, "Various" and the empty one among
\* them, unchanged; and a string that is MM/DD/YYYY already as it is.
C14_DateNormalizer ==
    Returned("standardize_date") =>
        /\ Cardinality(Slashes(call.args[1])) = 2 =>
             call.ret = Some(ThreeParts(call.args[1], Min(Slashes(call.args[1])),
                                        Max(Slashes(call.args[1]))))
        /\ Cardinality(Slashes(call.args[1])) # 2 => call.ret = Some(call.args[1])
        /\ Canonical(call.args[1]) => call.ret = Some(call.args[1])
        /\ call.args[1] = <<"3", "/", "1", "/", "2", "4">> => call.ret = Some(<<"0", "3", "/", "0", "1", "/", "2", "0", "2", "4">>)
        /\ call.args[1] = <<"V", "a", "r", "i", "o", "u", "s">> => call.ret = Some(<<"V", "a", "r", "i", "o", "u", "s">>)

\* A date with a month and a day of one digit and a year of two.
C14_Witness ==
    /\ Returned("standardize_date")
    /\ call.args[1] = <<"3", "/", "1", "/", "2", "4">>
    /\ call.ret = Some(<<"0", "3", "/", "0", "1", "/", "2", "0", "2", "4">>)

LeapYear(y) == y % 4 = 0 /\ (y % 100 # 0 \/ y % 400 = 0)

MonthLengths(y) ==
    <<31, IF LeapYear(y) THEN 29 ELSE 28, 31, 30, 31, 30, 31, 31, 30, 31, 30, 31>>

\* The days of the months of year y before month m.
RECURSIVE DaysBeforeMonth(_, _)
DaysBeforeMonth(y, m) ==
    IF m <= 1 THEN 0 ELSE DaysBeforeMonth(y, m - 1) + MonthLengths(y)[m - 1]

\* The days from 1 January 2000 to the date, for a year from 2000 on.
DaysSinceEpoch(y, m, d) ==
    (y - 2000) * 365 + Cardinality({z \in 2000..(y - 1) : LeapYear(z)})
    + DaysBeforeMonth(y, m) + d - 1

\* The string read as MM/DD/YYYY: a month and a day of one or two digits, a
\* year of four, and the day one of the month.
CalendarDate(s) ==
    LET a == Min(Slashes(s) \cup {Len(s) + 1})
        b == Max(Slashes(s) \cup {0})
        mm == SubSeq(s, 1, a - 1)
        dd == SubSeq(s, a + 1, b - 1)
        yy == From(s, b + 1)
        ok == /\ Cardinality(Slashes(s)) = 2
              /\ Len(mm) \in 1..2 /\ Len(dd) \in 1..2 /\ Len(yy) = 4
              /\ All(mm \o dd \o yy, Digit)
              /\ DigitsVal(mm) \in 1..12
              /\ DigitsVal(yy) >= 2000
              /\ DigitsVal(dd) \in 1..MonthLengths(DigitsVal(yy))[DigitsVal(mm)]
    IN  [ok |-> ok,
         day |-> IF ok THEN DaysSinceEpoch(DigitsVal(yy), DigitsVal(mm), DigitsVal(dd))
                 ELSE 0]

\* Both strings are dates and sold is more than 365 days after acquired.
HeldOverOneYear(acquired, sold) ==
    acquired.ok /\ sold.ok /\ sold.day - acquired.day > 365

----------------------------------------------------------------------------
\* Properties of the rows.

\* A date field holds MM/DD/YYYY or "Various".
IsDateField(d) == Canonical(d) \/ d = <<"V", "a", "r", "i", "o", "u", "s">>

DatesAreDates(t) == IsDateField(t.dateAcquired) /\ IsDateField(t.dateSold)

\* C18: in every transaction, of a parser and of a printed result,
\* dateAcquired and dateSold are each MM/DD/YYYY or "Various".  The pattern
\* with a quantity of parse_pdf_fixed.py stores the sold date as dateAcquired
\* and the quantity as dateSold: "AAPL 1/2/2023 3/4/2024 10 1,500.00 1,000.00"
\* gives dateSold "10".
C18_DateFields ==
    /\ \A k \in DOMAIN transactions : DatesAreDates(transactions[k])
    /\ \A j \in DOMAIN Printed :
          "transactions" \in DOMAIN Printed[j].value =>
              \A k \in DOMAIN Printed[j].value.transactions :
                  DatesAreDates(Printed[j].value.transactions[k])

\* The lines of the text that are not blank.
RowLines == {i \in DOMAIN text : strip(text[i]) # <<>>}

\* C19: a parser makes one transaction of a row and a line gives no more
\* than one, whatever the number of patterns that match it, so that a text
\* has no more transactions than lines.  The loop over the patterns of
\* parse_pdf_fixed.py goes on after a match: the one line
\* "88160R101 TSLA 1/2/2023 3/4/2024 10 1,500.00 1,000.00" gives two.
C19_OneTransactionPerLine ==
    (\/ prog = "brokerageParser" /\ pc = "ibkr_return"
     \/ prog = "parse_pdf_fixed" /\ pc = "assemble") =>
        Len(transactions) <= Cardinality(RowLines)

\* The lines of the text that patterns[p] matches.
MatchedBy(p) == {i \in DOMAIN text : IBKRSearch(p, strip(text[i])).ok}

\* The fields patterns[0] leaves at their defaults.
HasDefaults(t) ==
    /\ t.cusip = <<"U", "n", "k", "n", "o", "w", "n">>
    /\ t.quantity = Units(1)
    /\ t.dateAcquired = <<"V", "a", "r", "i", "o", "u", "s">> /\ t.dateSold = <<"V", "a", "r", "i", "o", "u", "s">>

\* C20: in parse_interactive_brokers_pdf every line that the company pattern
\* or the full-row pattern matches is matched by the four bare amounts too,
\* and that pattern has the first pass; so the transactions returned are all
\* of that pass, each with cusip "Unknown", quantity 1 and both dates
\* "Various", and no other pass yields the result.
C20_BarePatternYieldsAll ==
    (prog = "brokerageParser" /\ pc = "ibkr_return") =>
        /\ MatchedBy(1) \cup MatchedBy(2) \subseteq MatchedBy(0)
        /\ PatternsTried[1] = 1
        /\ \A k \in DOMAIN transactions : HasDefaults(transactions[k])
        /\ transactions # <<>> => (pattern_idx = 0 /\ PatternsTried = <<1>>)
        /\ transactions = <<>> => MatchedBy(1) \cup MatchedBy(2) = {}

\* Transactions of a text with a full row and a company row.
C20_Witness ==
    /\ prog = "brokerageParser" /\ pc = "ibkr_return"
    /\ transactions # <<>>
    /\ MatchedBy(2) # {}
    /\ MatchedBy(1) \ MatchedBy(2) # {}
----------------------------------------------------------------------------
\* Properties of the transactions' terms, of the stitched rows and of
\* parse_pdf.py.

\* The transactions of the results printed.
PrintedTransactions ==
    UNION {Range(Printed[j].value.transactions) :
             j \in {i \in DOMAIN Printed :
                      "transactions" \in DOMAIN Printed[i].value}}

\* isLongTerm is the holding period of the transaction's own dates, and
\* formType is "D" exactly for a long-term transaction.
TermOfOwnDates(t) ==
    /\ t.isLongTerm = HeldOverOneYear(CalendarDate(t.dateAcquired),
                                      CalendarDate(t.dateSold))
    /\ t.formType = <<"D">> <=> t.isLongTerm

\* C21: in every transaction, of a parser and of a printed result, isLongTerm
\* is true exactly when the transaction's own dateAcquired and dateSold are
\* dates more than 365 days apart, and formType is "D" exactly when
\* isLongTerm is true.  The sample transactions of parse_pdf_fixed.py say
\* long-term "D" for 03/15/2024 to 11/22/2024.
C21_TermOfOwnDates ==
    /\ prog \in {"brokerageParser", "parse_pdf_fixed"} =>
          \A k \in DOMAIN transactions : TermOfOwnDates(transactions[k])
    /\ \A t \in PrintedTransactions : TermOfOwnDates(t)

\* The lines range(start_idx, min(start_idx + 5, len(lines))) of a call of
\* parse_transaction_lines, numbered from 1.
ScannedFrom == call.args[2] + 1

ScannedTo == Min({call.args[2] + 5, Len(call.args[1])})

\* The dates and the positive amounts in the lines scanned.
DatesFound == StitchDates(call.args[1], ScannedFrom, ScannedTo)

AmountsFound == StitchAmounts(call.args[1], ScannedFrom, ScannedTo)

IsLargest(x, amounts) == x \in Range(amounts) /\ \A a \in Range(amounts) : a <= x

IsSmallest(x, amounts) == x \in Range(amounts) /\ \A a \in Range(amounts) : x <= a

\* A stitched transaction never reports a loss.
NoLoss(t) ==
    /\ t.proceeds >= t.costBasis /\ t.costBasis > 0
    /\ t.netGainLoss = t.proceeds - t.costBasis
    /\ t.netGainLoss >= 0

\* C22: parse_transaction_lines scans the row's line and the next four; it
\* returns a transaction exactly when it found two dates or more and two
\* positive amounts or more there, with the largest amount as proceeds and
\* the smallest as costBasis, so that proceeds >= costBasis > 0 and
\* netGainLoss >= 0.
C22_StitchedNeverLoses ==
    Returned("parse_transaction_lines") =>
        /\ call.ret[1] # None <=> (Len(DatesFound) >= 2 /\ Len(AmountsFound) >= 2)
        /\ call.ret[1] # None =>
              /\ \A a \in Range(AmountsFound) : a > 0
              /\ IsLargest(call.ret[1][1].proceeds, AmountsFound)
              /\ IsSmallest(call.ret[1][1].costBasis, AmountsFound)
              /\ NoLoss(call.ret[1][1])

\* A transaction stitched from a text longer than the lines scanned, the
\* smaller amount found first.
C22_Witness ==
    /\ Returned("parse_transaction_lines")
    /\ call.ret[1] # None
    /\ ScannedTo < Len(call.args[1])
    /\ AmountsFound[1] < call.ret[1][1].proceeds

\* Past the lines scanned there are a date and an amount that would have
\* made a transaction.
BeyondTheLinesScanned ==
    /\ Returned("parse_transaction_lines")
    /\ call.ret[1] = None
    /\ Len(StitchDates(call.args[1], ScannedFrom, Len(call.args[1]))) >= 2
    /\ Len(StitchAmounts(call.args[1], ScannedFrom, Len(call.args[1]))) >= 2

\* The result reports a failure with an error, no transaction and a summary
\* of zeros.
IsEmptyFailure(r) ==
    /\ ~r.success
    /\ "error" \in DOMAIN r
    /\ r.transactions = <<>>
    /\ \A f \in DOMAIN r.summary : r.summary[f] = 0

\* C23: extract_transactions_from_text of parse_pdf.py never returns: after
\* the line scan, whatever it found, the reference to stock_patterns raises.
\* A run of parse_pdf.py on a file whose text was extracted ends with one
\* result printed, with success false, that error, no transaction and a
\* summary of zeros; no run of parse_pdf.py prints a result with success true.
C23_PdfNeverSucceeds ==
    prog = "parse_pdf" =>
        /\ \A j \in DOMAIN Printed : IsEmptyFailure(Printed[j].value)
        /\ pc \in {"print", "done"} => IsEmptyFailure(result[1])
        /\ (pc \in {"print", "done"} /\ upstream # "unreadable") =>
              result[1].error = "name 'stock_patterns' is not defined"
        /\ Done => Len(Printed) = 1

\* The line scan found rows and the run printed a failure without them.
C23_Witness ==
    /\ prog = "parse_pdf" /\ Done
    /\ transactions # <<>> /\ transactions # SampleTransactions
    /\ Len(Printed) = 1 /\ Printed[1].value.transactions = <<>>
====
